---- MODULE Spec2Model ----
(***************************************************************************)
(* A model of the column-detection and metric-derivation pipeline of the   *)
(* AI Financial Analysis Platform:                                         *)
(*   smart_analyzer.py      SmartFinancialAnalyzer (column classifier,     *)
(*                          business-type classifier, data extractor)      *)
(*   advanced_calculator.py AdvancedFinancialCalculator (metric library    *)
(*                          and the calculate_all_metrics dispatcher)      *)
(*                                                                         *)
(* Text is modelled as a sequence of one-character strings, so that        *)
(* str.lower, str.strip and the substring test `pattern in col` are        *)
(* computed and not assumed.  Python dicts are functions whose domain is   *)
(* the set of keys.  Amounts are integers; a ratio rounded to 4 decimals   *)
(* is the integer number of 1/10000 units.                                 *)
(***************************************************************************)
EXTENDS Integers, Sequences, FiniteSets, TLC

VARIABLES
  df_columns,        \* self.df.columns: the column names, in table order
  df_data,           \* self.df: per column, the cells in row order
  columns,           \* self.columns: lower-cased, stripped names
  business_type,     \* self.business_type ("None" until detected)
  detected_columns,  \* self.detected_columns: the Role Map
  metrics_available, \* self.metrics_available
  financial_data,    \* Some(value returned by the last extract_financial_data)
  call,              \* Some(the last call of the calculator: function, arguments)
  ret                \* Some(the value that call returned)

vars == << df_columns, df_data, columns, business_type, detected_columns,
           metrics_available, financial_data, call, ret >>

----------------------------------------------------------------------------
(* Bounds of the model *)

\* most columns of a table that has no rows
MaxCols == 3
\* most columns of a table that has rows
MaxDataCols == 2
\* most cells (columns times rows) of a table that has rows
MaxCells == 4

----------------------------------------------------------------------------
(* Text *)

upper_to_lower ==
  [ A |-> "a", B |-> "b", C |-> "c", D |-> "d", E |-> "e", F |-> "f", G |-> "g", H |-> "h", I |-> "i", J |-> "j", K |-> "k", L |-> "l", M |-> "m", N |-> "n", O |-> "o", P |-> "p", Q |-> "q", R |-> "r", S |-> "s", T |-> "t", U |-> "u", V |-> "v", W |-> "w", X |-> "x", Y |-> "y", Z |-> "z" ]

lower(s) ==
  [i \in 1..Len(s) |-> IF s[i] \in DOMAIN upper_to_lower
                         THEN upper_to_lower[s[i]] ELSE s[i]]

whitespace == {" "}

RECURSIVE lstrip(_)
lstrip(s) ==
  IF s # <<>> /\ Head(s) \in whitespace THEN lstrip(Tail(s)) ELSE s

RECURSIVE rstrip(_)
rstrip(s) ==
  IF s # <<>> /\ s[Len(s)] \in whitespace
    THEN rstrip(SubSeq(s, 1, Len(s) - 1)) ELSE s

strip(s) == rstrip(lstrip(s))

\* Python's `p in s` on strings
contains(s, p) ==
  \E i \in 0..(Len(s) - Len(p)) : \A j \in 1..Len(p) : s[i + j] = p[j]

\* list.index(x): position of the first occurrence
index(l, x) == CHOOSE i \in 1..Len(l) : l[i] = x /\ \A j \in 1..(i - 1) : l[j] # x

----------------------------------------------------------------------------
(* Column names *)

Col_Revenue == <<"R","e","v","e","n","u","e">>
Col_Cost == <<"C","o","s","t">>
Col_COST_ == <<"C","O","S","T"," ">>
Col_Net_Income == <<"N","e","t","_","I","n","c","o","m","e">>
Col_Working_Capital == <<"W","o","r","k","i","n","g"," ","C","a","p","i","t","a","l">>
Col_Account == <<"A","c","c","o","u","n","t">>
Col_Equity == <<"E","q","u","i","t","y">>
Col_Liabilities == <<"L","i","a","b","i","l","i","t","i","e","s">>
Col_Cash_Flow == <<"C","a","s","h"," ","F","l","o","w">>
Col_Total_Assets == <<"T","o","t","a","l"," ","A","s","s","e","t","s">>
Col_Notes == <<"N","o","t","e","s">>

\* names of the columns of tables without rows
ColumnNames ==
  { Col_Revenue, Col_Cost, Col_COST_, Col_Net_Income, Col_Working_Capital,
    Col_Account, Col_Notes }

\* names of the columns of tables with rows, in the order they take in a
\* table (a name may repeat); the tables without rows cover the other orders
DataColumnOrder ==
  << Col_Revenue, Col_Cost, Col_Equity, Col_Liabilities, Col_Cash_Flow,
     Col_Total_Assets >>

DataColumnNames == { DataColumnOrder[i] : i \in 1..Len(DataColumnOrder) }

AllColumnNames == ColumnNames \cup DataColumnNames

----------------------------------------------------------------------------
(* Column Classifier *)

column_patterns ==
  [ revenue |->
        << <<"r","e","v","e","n","u","e">>,
           <<"s","a","l","e","s">>,
           <<"i","n","c","o","m","e">>,
           <<"t","o","t","a","l","_","a","m","o","u","n","t">>,
           <<"t","o","t","a","l"," ","a","m","o","u","n","t">>,
           <<"s","a","l","e","s","_","a","m","o","u","n","t">> >>,
    cost |->
        << <<"c","o","s","t">>,
           <<"e","x","p","e","n","s","e">>,
           <<"c","o","g","s">>,
           <<"c","o","s","t","_","o","f","_","g","o","o","d","s">>,
           <<"p","u","r","c","h","a","s","e">>,
           <<"e","x","p","e","n","d","i","t","u","r","e">> >>,
    profit |->
        << <<"p","r","o","f","i","t">>,
           <<"n","e","t","_","i","n","c","o","m","e">>,
           <<"e","a","r","n","i","n","g","s">>,
           <<"m","a","r","g","i","n">> >>,
    date |->
        << <<"d","a","t","e">>,
           <<"t","i","m","e">>,
           <<"p","e","r","i","o","d">>,
           <<"m","o","n","t","h">>,
           <<"y","e","a","r">>,
           <<"t","i","m","e","s","t","a","m","p">> >>,
    quantity |->
        << <<"q","u","a","n","t","i","t","y">>,
           <<"q","t","y">>,
           <<"u","n","i","t","s">>,
           <<"v","o","l","u","m","e">>,
           <<"c","o","u","n","t">> >>,
    price |->
        << <<"p","r","i","c","e">>,
           <<"u","n","i","t","_","p","r","i","c","e">>,
           <<"r","a","t","e">>,
           <<"c","o","s","t","_","p","e","r","_","u","n","i","t">> >>,
    customer |->
        << <<"c","u","s","t","o","m","e","r">>,
           <<"c","l","i","e","n","t">>,
           <<"b","u","y","e","r">>,
           <<"a","c","c","o","u","n","t">> >>,
    product |->
        << <<"p","r","o","d","u","c","t">>,
           <<"i","t","e","m">>,
           <<"s","k","u">>,
           <<"c","a","t","e","g","o","r","y">>,
           <<"s","e","r","v","i","c","e">> >>,
    investment |->
        << <<"i","n","v","e","s","t","m","e","n","t">>,
           <<"c","a","p","i","t","a","l">>,
           <<"i","n","i","t","i","a","l">>,
           <<"p","r","i","n","c","i","p","a","l">> >>,
    cashflow |->
        << <<"c","a","s","h","_","f","l","o","w">>,
           <<"c","a","s","h","f","l","o","w">>,
           <<"c","a","s","h">> >>,
    assets |->
        << <<"a","s","s","e","t","s">>,
           <<"i","n","v","e","n","t","o","r","y">>,
           <<"s","t","o","c","k">> >>,
    liabilities |->
        << <<"l","i","a","b","i","l","i","t","i","e","s">>,
           <<"d","e","b","t">>,
           <<"p","a","y","a","b","l","e">>,
           <<"l","o","a","n">> >>,
    equity |->
        << <<"e","q","u","i","t","y">>,
           <<"c","a","p","i","t","a","l">>,
           <<"o","w","n","e","r">> >> ]

role_order ==
  << "revenue", "cost", "profit", "date", "quantity", "price", "customer", "product", "investment", "cashflow", "assets", "liabilities", "equity" >>

Roles == {role_order[i] : i \in 1..Len(role_order)}

\* d[key] = v on a dict
put(d, key, v) == (key :> v) @@ d

empty_dict == [k \in {} |-> 0]

\* an optional value: None, or Some(x); x = opt[1]
None == <<>>
Some(x) == <<x>>

\* d[key] = opt[1] when the optional value is there; d otherwise
with_key(d, key, opt) == (IF opt = None THEN empty_dict ELSE key :> opt[1]) @@ d

\* `for pattern in patterns: if pattern in col: ...; break`
any_pattern_in(col, key) ==
  \E j \in 1..Len(column_patterns[key]) : contains(col, column_patterns[key][j])

\* any_pattern_in, tabulated once for the lower-cased, stripped names in use:
\* the pairs (name, role) that match
pattern_table ==
  { p : p \in { q \in { strip(lower(n)) : n \in AllColumnNames } \X Roles :
                  any_pattern_in(q[1], q[2]) } }

matches(col, key) == <<col, key>> \in pattern_table

\* scan_columns that passes over a column another role already holds
RECURSIVE scan_columns_exclusive(_, _, _, _, _)
scan_columns_exclusive(key, i, cols, original, dc) ==
  IF i > Len(cols) THEN dc
  ELSE LET col == cols[i]
           name == original[index(cols, col)]
           dc1 == IF matches(col, key) /\ \A r \in DOMAIN dc : dc[r] # name
                    THEN put(dc, key, name)
                    ELSE dc
       IN  IF key \in DOMAIN dc1 THEN dc1
           ELSE scan_columns_exclusive(key, i + 1, cols, original, dc1)

\* scan_columns that looks for a column other than the one the role holds
\* and stops only after an assignment
RECURSIVE scan_columns_other(_, _, _, _, _)
scan_columns_other(key, i, cols, original, dc) ==
  IF i > Len(cols) THEN dc
  ELSE LET col == cols[i]
           name == original[index(cols, col)]
       IN  IF matches(col, key) /\ (key \in DOMAIN dc => dc[key] # name)
             THEN put(dc, key, name)
             ELSE scan_columns_other(key, i + 1, cols, original, dc)

\* the `for col in self.columns` loop of one role, from column i on
RECURSIVE scan_columns(_, _, _, _, _)
scan_columns(key, i, cols, original, dc) ==
  IF i > Len(cols) THEN dc
  ELSE LET col == cols[i]
           dc1 == IF matches(col, key)
                    THEN put(dc, key, original[index(cols, col)])
                    ELSE dc
       IN  IF key \in DOMAIN dc1 THEN dc1
           ELSE scan_columns(key, i + 1, cols, original, dc1)

\* the `for key, patterns in column_patterns.items()` loop, from role k on
RECURSIVE scan_roles(_, _, _, _)
scan_roles(k, cols, original, dc) ==
  IF k > Len(role_order) THEN dc
  ELSE scan_roles(k + 1, cols, original,
                  scan_columns(role_order[k], 1, cols, original, dc))

_detect_columns(cols, original, dc) == scan_roles(1, cols, original, dc)

----------------------------------------------------------------------------
(* Business-Type Classifier *)

\* _detect_business_type with `<=` (subset) for `&` (intersection)
_detect_business_type_subset(dc) ==
  LET col_set == DOMAIN dc IN
  IF {"product", "quantity", "assets"} \subseteq col_set THEN "retail_inventory"
  ELSE IF {"customer", "revenue", "date"} \subseteq col_set THEN "service_based"
  ELSE IF {"investment", "cashflow"} \subseteq col_set THEN "investment_portfolio"
  ELSE IF {"assets", "liabilities", "equity"} \subseteq col_set THEN "balance_sheet"
  ELSE IF {"revenue", "cost", "profit"} \subseteq col_set THEN "income_statement"
  ELSE "general_financial"

\* the classifier with the statement types tried before the service type
_detect_business_type_statements_first(dc) ==
  LET col_set == DOMAIN dc IN
  IF {"product", "quantity", "assets"} \cap col_set # {} THEN "retail_inventory"
  ELSE IF {"assets", "liabilities", "equity"} \cap col_set # {} THEN "balance_sheet"
  ELSE IF {"revenue", "cost", "profit"} \cap col_set # {} THEN "income_statement"
  ELSE IF {"customer", "revenue", "date"} \cap col_set # {} THEN "service_based"
  ELSE IF {"investment", "cashflow"} \cap col_set # {} THEN "investment_portfolio"
  ELSE "general_financial"

_detect_business_type(dc) ==
  LET col_set == DOMAIN dc IN
  IF {"product", "quantity", "assets"} \cap col_set # {} THEN "retail_inventory"
  ELSE IF {"customer", "revenue", "date"} \cap col_set # {} THEN "service_based"
  ELSE IF {"investment", "cashflow"} \cap col_set # {} THEN "investment_portfolio"
  ELSE IF {"assets", "liabilities", "equity"} \cap col_set # {} THEN "balance_sheet"
  ELSE IF {"revenue", "cost", "profit"} \cap col_set # {} THEN "income_statement"
  ELSE "general_financial"

_determine_available_metrics(dc) ==
  LET has(r) == r \in DOMAIN dc IN
    (IF has("revenue") /\ has("cost")
       THEN <<"profit_loss_ratio", "gross_margin", "net_margin", "roi">> ELSE <<>>)
  \o (IF has("cashflow") \/ (has("revenue") /\ has("date"))
       THEN <<"npv", "irr", "payback_period", "profitability_index">> ELSE <<>>)
  \o (IF has("revenue") /\ has("cost") THEN <<"cash_flow_analysis">> ELSE <<>>)
  \o (IF has("revenue") /\ has("cost") /\ has("quantity")
       THEN <<"break_even_analysis">> ELSE <<>>)
  \o (IF has("revenue") /\ has("date")
       THEN <<"revenue_per_hour", "sales_growth", "revenue_forecast">> ELSE <<>>)
  \o (IF has("assets") /\ has("liabilities")
       THEN <<"working_capital", "current_ratio", "quick_ratio">> ELSE <<>>)
  \o (IF has("liabilities") /\ has("equity") THEN <<"debt_to_equity">> ELSE <<>>)
  \o (IF has("cost") /\ has("assets") THEN <<"inventory_turnover">> ELSE <<>>)

----------------------------------------------------------------------------
(* Tables *)

SeqsUpTo(S, n) == UNION { [1..k -> S] : k \in 1..n }

\* A cell either coerces to a number (pd.to_numeric, errors='coerce') or is
\* text such as 'N/A' that coerces to NaN and is dropped by dropna().
Num(v) == [coercible |-> TRUE, v |-> v]
Text == [coercible |-> FALSE, v |-> 0]
Cells == { Num(2), Num(-1), Text }

\* the shapes (columns, rows) of the tables that have rows
DataShapes ==
  { kr \in (1..MaxDataCols) \X (1..MaxCells) : kr[1] * kr[2] <= MaxCells }

----------------------------------------------------------------------------
(* Financial Data Extractor *)

\* self.df[name]: a Series when the name is unique; with a repeated name
\* pandas returns a DataFrame, which pd.to_numeric rejects with TypeError
is_series(names, name) == Cardinality({i \in 1..Len(names) : names[i] = name}) = 1

\* to_numeric with the cells that do not parse kept as 0 (fillna(0) in place
\* of dropna())
to_numeric_fillna(names, data, name) ==
  LET cells == data[index(names, name)]
  IN  [i \in 1..Len(cells) |-> IF cells[i].coercible THEN cells[i].v ELSE 0]

\* pd.to_numeric(self.df[name], errors='coerce').dropna().tolist()
to_numeric_dropna(names, data, name) ==
  LET cells == data[index(names, name)]
      keep(c) == c.coercible
      kept == SelectSeq(cells, keep)
  IN  [i \in 1..Len(kept) |-> kept[i].v]

RECURSIVE sum(_)
sum(l) == IF l = <<>> THEN 0 ELSE Head(l) + sum(Tail(l))

\* float(series.mean()): NaN on an empty series, else total / count
NaN == [nan |-> TRUE, num |-> 0, den |-> 1]
Rat(n, d) == [nan |-> FALSE, num |-> n, den |-> d]
mean(l) == IF l = <<>> THEN NaN ELSE Rat(sum(l), Len(l))

min(a, b) == IF a < b THEN a ELSE b

\* lines 179-214: the revenue and the cost aggregate
series_aggregate(names, data, name) ==
  IF is_series(names, name)
    THEN LET series == to_numeric_dropna(names, data, name)
         IN  [total |-> sum(series), mean |-> mean(series), series |-> series]
    ELSE [total |-> 0, mean |-> Rat(0, 1), series |-> <<>>,
          error |-> "Could not process column"]

\* the scalar of a role taken as the last numeric cell of the column
scalar_aggregate_last(names, data, name) ==
  IF is_series(names, name)
    THEN LET series == to_numeric_dropna(names, data, name)
         IN  IF series = <<>> THEN 0 ELSE series[Len(series)]
    ELSE 0

\* lines 223-230, 259-279: a scalar role; the bare except yields 0
scalar_aggregate(names, data, name) ==
  IF is_series(names, name)
    THEN sum(to_numeric_dropna(names, data, name))
    ELSE 0

\* lines 216-221
profit_aggregate(revenue, cost) ==
  [total |-> revenue.total - cost.total,
   margin |-> IF revenue.total > 0
                THEN Rat((revenue.total - cost.total) * 100, revenue.total)
                ELSE Rat(0, 1)]

\* lines 232-249
explicit_cashflows(names, data, name) ==
  IF is_series(names, name) THEN to_numeric_dropna(names, data, name) ELSE <<>>

\* cash flows synthesized over the longer series, a missing element read
\* as 0
derived_cashflows_padded(revenue, cost) ==
  LET max_len == IF Len(revenue.series) > Len(cost.series)
                   THEN Len(revenue.series) ELSE Len(cost.series)
      at(s, i) == IF i <= Len(s) THEN s[i] ELSE 0
  IN  [i \in 1..max_len |-> at(revenue.series, i) - at(cost.series, i)]

derived_cashflows(revenue, cost) ==
  LET min_len == min(Len(revenue.series), Len(cost.series))
  IN  [i \in 1..min_len |-> revenue.series[i] - cost.series[i]]

\* lines 251-257: pd.to_datetime raises on a DataFrame and on text that is
\* no date, and the bare except stores None
dates_of(names, data, name) ==
  IF is_series(names, name)
     /\ \A i \in 1..Len(data[index(names, name)]) :
          data[index(names, name)][i].coercible
    THEN "Series" ELSE "None"

\* lines 281-291
quantity_aggregate(names, data, name) ==
  IF is_series(names, name)
    THEN LET series == to_numeric_dropna(names, data, name)
         IN  [total |-> sum(series), mean |-> mean(series)]
    ELSE [total |-> 0, mean |-> Rat(0, 1)]

\* The dict `data` is built entry by entry; an entry that is not set is None,
\* and `'revenue' in data` reads: the revenue entry is set.
extract_financial_data(names, data, dc) ==
  LET has(r) == r \in DOMAIN dc
      revenue == IF has("revenue")
                   THEN Some(series_aggregate(names, data, dc["revenue"]))
                   ELSE None
      cost == IF has("cost")
                THEN Some(series_aggregate(names, data, dc["cost"]))
                ELSE None
      profit == IF revenue # None /\ cost # None
                  THEN Some(profit_aggregate(revenue[1], cost[1]))
                  ELSE None
      investment == IF has("investment")
                      THEN Some(scalar_aggregate(names, data, dc["investment"]))
                      ELSE None
      cashflows == IF has("cashflow")
                     THEN Some(explicit_cashflows(names, data, dc["cashflow"]))
                   ELSE IF /\ revenue # None /\ cost # None
                           /\ "error" \notin DOMAIN revenue[1]
                           /\ "error" \notin DOMAIN cost[1]
                     THEN Some(derived_cashflows(revenue[1], cost[1]))
                   ELSE None
      dates == IF has("date") THEN Some(dates_of(names, data, dc["date"])) ELSE None
      assets == IF has("assets")
                  THEN Some(scalar_aggregate(names, data, dc["assets"]))
                  ELSE None
      liabilities == IF has("liabilities")
                       THEN Some(scalar_aggregate(names, data, dc["liabilities"]))
                       ELSE None
      equity == IF has("equity")
                  THEN Some(scalar_aggregate(names, data, dc["equity"]))
                  ELSE None
      quantity == IF has("quantity")
                    THEN Some(quantity_aggregate(names, data, dc["quantity"]))
                    ELSE None
  IN  with_key(with_key(with_key(with_key(with_key(with_key(with_key(with_key(
      with_key(with_key(empty_dict,
        "revenue", revenue), "cost", cost), "profit", profit),
        "investment", investment), "cashflows", cashflows), "dates", dates),
        "assets", assets), "liabilities", liabilities), "equity", equity),
        "quantity", quantity)

----------------------------------------------------------------------------
(* The analyzer object *)

\* the record of one call of the calculator; solver is what fsolve did in it
called(fn, args, solver) == Some([fn |-> fn, args |-> args, solver |-> solver])

\* the lists of k column names of a table with rows
DataColumnLists(k) ==
  { [i \in 1..k |-> DataColumnOrder[pos[i]]] :
      pos \in { f \in [1..k -> 1..Len(DataColumnOrder)] :
                  \A i \in 1..(k - 1) : f[i] <= f[i + 1] } }

\* the table (column names, cells per column) is one without rows, or one
\* with rows
table(names, data) ==
  /\ df_columns = names
  /\ df_data = data

\* SmartFinancialAnalyzer(df)
Init ==
  /\ \/ \E k \in 1..MaxCols : \E names \in [1..k -> ColumnNames] :
          table(names, [c \in 1..k |-> <<>>])
     \/ \E kr \in DataShapes :
          \E names \in DataColumnLists(kr[1]) :
            \E data \in [1..kr[1] -> [1..kr[2] -> Cells]] :
              table(names, data)
  /\ columns = [i \in 1..Len(df_columns) |-> strip(lower(df_columns[i]))]
  /\ business_type = "None"
  /\ detected_columns = empty_dict
  /\ metrics_available = <<>>
  /\ financial_data = None
  /\ call = None
  /\ ret = None

\* analyzer.analyze_dataset()
analyze_dataset ==
  LET dc == _detect_columns(columns, df_columns, detected_columns) IN
  /\ detected_columns' = dc
  /\ business_type' = _detect_business_type(dc)
  /\ metrics_available' = _determine_available_metrics(dc)
  /\ UNCHANGED << df_columns, df_data, columns, financial_data, call, ret >>

\* extract_financial_data that detects the columns itself
extract_detecting ==
  LET dc == _detect_columns(columns, df_columns, detected_columns) IN
  /\ financial_data' = Some(extract_financial_data(df_columns, df_data, dc))
  /\ detected_columns' = dc
  /\ UNCHANGED << df_columns, df_data, columns, business_type,
                  metrics_available, call, ret >>

\* analyzer.extract_financial_data()
extract ==
  /\ financial_data' = Some(extract_financial_data(df_columns, df_data, detected_columns))
  /\ UNCHANGED << df_columns, df_data, columns, business_type, detected_columns,
                  metrics_available, call, ret >>


----------------------------------------------------------------------------
(* Numbers of the metric library *)

\* Python floats are modelled as exact rationals num/den with den > 0.  A
\* field the code rounds to n decimals holds the integer number of 10^-n
\* units; an amount (a sum of whole cells) is kept as it is, since round
\* leaves a whole number alone.
RECURSIVE gcd(_, _)
gcd(a, b) == IF b = 0 THEN a ELSE gcd(b, a % b)

\* a / b for b # 0, in lowest terms
Div(a, b) ==
  LET g == gcd(IF a < 0 THEN -a ELSE a, IF b < 0 THEN -b ELSE b)
  IN  IF b > 0 THEN Rat(a \div g, b \div g) ELSE Rat((-a) \div g, (-b) \div g)

\* x * y and x + y
Mul(x, y) == Div(x.num * y.num, x.den * y.den)
Add(x, y) == Div(x.num * y.den + y.num * x.den, x.den * y.den)

\* round to the nearest integer, a tie going to the even neighbour
round_half_even(n, d) ==
  LET q == n \div d
      r == n - q * d
  IN  IF 2 * r < d THEN q
      ELSE IF 2 * r > d THEN q + 1
      ELSE IF q % 2 = 0 THEN q ELSE q + 1

\* round(x, 4) and round(x, 2)
round4(x) == round_half_even(x.num * 10000, x.den)
round2(x) == round_half_even(x.num * 100, x.den)
\* round(x * 100, 2)
percentage(x) == round_half_even(x.num * 10000, x.den)

\* x > a/b and x < a/b, for b > 0
gt(x, a, b) == x.num * b > a * x.den
lt(x, a, b) == x.num * b < a * x.den

abs(a) == IF a < 0 THEN -a ELSE a

RECURSIVE pow(_, _)
pow(b, e) == IF e = 0 THEN 1 ELSE b * pow(b, e - 1)

error_record(msg) == [error |-> msg]

----------------------------------------------------------------------------
(* Metric Library: advanced_calculator.py *)

\* calculate_profit_loss_ratio that relates the profit to the cost (a
\* markup) instead of the revenue
calculate_profit_loss_ratio_on_cost(revenue, cost) ==
  LET profit == revenue - cost
      profit_loss_ratio == IF cost > 0 THEN Div(profit, cost) ELSE Rat(0, 1)
  IN  [profit |-> profit,
       revenue |-> revenue,
       cost |-> cost,
       profit_loss_ratio |-> round4(profit_loss_ratio),
       profit_percentage |-> percentage(profit_loss_ratio),
       is_profitable |-> profit > 0,
       status |-> IF profit > 0 THEN "Profitable" ELSE "Loss",
       interpretation |-> IF profit > 0 THEN "Profit" ELSE "Loss",
       formula |-> "Profit/Loss Ratio = (Revenue - Cost) / Revenue"]

\* calculate_profit_loss_ratio that keeps the divisor away from zero by
\* adding 1 to the revenue
calculate_profit_loss_ratio_smoothed(revenue, cost) ==
  LET profit == revenue - cost
      profit_loss_ratio == IF revenue > 0 THEN Div(profit, revenue + 1) ELSE Rat(0, 1)
  IN  [profit |-> profit,
       revenue |-> revenue,
       cost |-> cost,
       profit_loss_ratio |-> round4(profit_loss_ratio),
       profit_percentage |-> percentage(profit_loss_ratio),
       is_profitable |-> profit > 0,
       status |-> IF profit > 0 THEN "Profitable" ELSE "Loss",
       interpretation |-> IF profit > 0 THEN "Profit" ELSE "Loss",
       formula |-> "Profit/Loss Ratio = (Revenue - Cost) / Revenue"]

calculate_profit_loss_ratio(revenue, cost) ==
  LET profit == revenue - cost
      profit_loss_ratio == IF revenue > 0 THEN Div(profit, revenue) ELSE Rat(0, 1)
  IN  [profit |-> profit,
       revenue |-> revenue,
       cost |-> cost,
       profit_loss_ratio |-> round4(profit_loss_ratio),
       profit_percentage |-> percentage(profit_loss_ratio),
       is_profitable |-> profit > 0,
       status |-> IF profit > 0 THEN "Profitable" ELSE "Loss",
       interpretation |-> IF profit > 0 THEN "Profit" ELSE "Loss",
       formula |-> "Profit/Loss Ratio = (Revenue - Cost) / Revenue"]

\* cf / (1 + rate) ** t, for 1 + rate # 0 or t = 0
present_value(cf, rate, t) ==
  Div(cf * pow(rate.den, t), pow(rate.den + rate.num, t))

\* the sum of cashflows[t] / (1 + rate) ** t over t = 0 .. n-1, on the
\* common denominator (1 + rate) ** (n-1)
npv_sum(cashflows, rate) ==
  LET n == Len(cashflows)
      base == rate.den + rate.num
      terms == [i \in 1..n |->
                  cashflows[i] * pow(rate.den, i - 1) * pow(base, n - i)]
  IN  Div(sum(terms), pow(base, n - 1))

\* calculate_npv_fixed that reports an empty series inside a result record
calculate_npv_fixed_partial(cashflows, discount_rate) ==
  IF Len(cashflows) = 0
    THEN [npv |-> 0, periods |-> 0, error |-> "No cash flows provided"]
  ELSE IF discount_rate.den + discount_rate.num = 0 /\ Len(cashflows) >= 2
    THEN error_record("float division by zero")
  ELSE
    LET npv == npv_sum(cashflows, discount_rate)
        present_values == [i \in 1..Len(cashflows) |->
                             present_value(cashflows[i], discount_rate, i - 1)]
    IN  [npv |-> round4(npv),
         discount_rate |-> round4(discount_rate),
         periods |-> Len(cashflows),
         total_cashflow |-> sum(cashflows),
         present_values |-> [i \in 1..Len(cashflows) |-> round4(present_values[i])],
         decision |-> IF gt(npv, 0, 1) THEN "Accept Project" ELSE "Reject Project",
         interpretation |-> IF gt(npv, 0, 1) THEN "adds" ELSE "destroys",
         formula |-> "NPV = sum [CFt / (1 + r)^t]"]

\* calculate_npv_fixed that discounts from the end of the first period
\* (enumerate starting at 1)
calculate_npv_fixed_end_of_period(cashflows, discount_rate) ==
  IF Len(cashflows) = 0 THEN error_record("No cash flows provided")
  ELSE IF discount_rate.den + discount_rate.num = 0
    THEN error_record("float division by zero")
  ELSE
    LET npv == Mul(npv_sum(cashflows, discount_rate),
                   Div(discount_rate.den, discount_rate.den + discount_rate.num))
        present_values == [i \in 1..Len(cashflows) |->
                             present_value(cashflows[i], discount_rate, i)]
    IN  [npv |-> round4(npv),
         discount_rate |-> round4(discount_rate),
         periods |-> Len(cashflows),
         total_cashflow |-> sum(cashflows),
         present_values |-> [i \in 1..Len(cashflows) |-> round4(present_values[i])],
         decision |-> IF gt(npv, 0, 1) THEN "Accept Project" ELSE "Reject Project",
         interpretation |-> IF gt(npv, 0, 1) THEN "adds" ELSE "destroys",
         formula |-> "NPV = sum [CFt / (1 + r)^t]"]

\* calculate_npv_fixed that lists the cash flows undiscounted
calculate_npv_fixed_undiscounted_list(cashflows, discount_rate) ==
  IF Len(cashflows) = 0 THEN error_record("No cash flows provided")
  ELSE IF discount_rate.den + discount_rate.num = 0 /\ Len(cashflows) >= 2
    THEN error_record("float division by zero")
  ELSE
    LET npv == npv_sum(cashflows, discount_rate)
    IN  [npv |-> round4(npv),
         discount_rate |-> round4(discount_rate),
         periods |-> Len(cashflows),
         total_cashflow |-> sum(cashflows),
         present_values |-> [i \in 1..Len(cashflows) |-> cashflows[i] * 10000],
         decision |-> IF gt(npv, 0, 1) THEN "Accept Project" ELSE "Reject Project",
         interpretation |-> IF gt(npv, 0, 1) THEN "adds" ELSE "destroys",
         formula |-> "NPV = sum [CFt / (1 + r)^t]"]

calculate_npv_fixed(cashflows, discount_rate) ==
  IF Len(cashflows) = 0 THEN error_record("No cash flows provided")
  ELSE IF discount_rate.den + discount_rate.num = 0 /\ Len(cashflows) >= 2
    THEN error_record("float division by zero")
  ELSE
    LET npv == npv_sum(cashflows, discount_rate)
        present_values == [i \in 1..Len(cashflows) |->
                             present_value(cashflows[i], discount_rate, i - 1)]
    IN  [npv |-> round4(npv),
         discount_rate |-> round4(discount_rate),
         periods |-> Len(cashflows),
         total_cashflow |-> sum(cashflows),
         present_values |-> [i \in 1..Len(cashflows) |-> round4(present_values[i])],
         decision |-> IF gt(npv, 0, 1) THEN "Accept Project" ELSE "Reject Project",
         interpretation |-> IF gt(npv, 0, 1) THEN "adds" ELSE "destroys",
         formula |-> "NPV = sum [CFt / (1 + r)^t]"]

\* calculate_irr_fixed that reports the seed instead of the solver's rate
calculate_irr_fixed_seed(cashflows, guess, solver) ==
  IF Len(cashflows) < 2 THEN error_record("At least 2 cash flows required")
  ELSE IF solver.kind = "fail"
    THEN error_record("Could not calculate IRR - cash flows may be invalid")
  ELSE
    [irr |-> round4(guess),
     irr_percentage |-> percentage(guess),
     periods |-> Len(cashflows),
     total_cashflow |-> sum(cashflows),
     interpretation |-> IF gt(guess, 1, 10) THEN "good" ELSE "poor",
     recommendation |-> IF gt(guess, 1, 10) THEN "Invest" ELSE "Reconsider",
     formula |-> "IRR: Rate where NPV = 0"]

\* scipy's fsolve is not code of this repository: what it does on
\* npv_func from the seed `guess` is an input of the call.  solver.kind is
\* "fsolve" when fsolve returns solver.root, "np_irr" when fsolve raises
\* and np.irr returns solver.root, "fail" when both raise.
calculate_irr_fixed(cashflows, guess, solver) ==
  IF Len(cashflows) < 2 THEN error_record("At least 2 cash flows required")
  ELSE IF solver.kind = "fail"
    THEN error_record("Could not calculate IRR - cash flows may be invalid")
  ELSE
    LET irr == solver.root
    IN  [irr |-> round4(irr),
         irr_percentage |-> percentage(irr),
         periods |-> Len(cashflows),
         total_cashflow |-> sum(cashflows),
         interpretation |-> IF gt(irr, 1, 10) THEN "good" ELSE "poor",
         recommendation |-> IF gt(irr, 1, 10) THEN "Invest" ELSE "Reconsider",
         formula |-> "IRR: Rate where NPV = 0"]

calculate_roi(total_revenue, total_cost, investment) ==
  LET net_profit == total_revenue - total_cost
      roi == IF investment > 0 THEN Div(net_profit, investment) ELSE Rat(0, 1)
  IN  [roi |-> round4(roi),
       roi_percentage |-> percentage(roi),
       net_profit |-> net_profit,
       investment |-> investment,
       interpretation |-> "ROI",
       formula |-> "ROI = (Revenue - Cost) / Investment"]

calculate_break_even(fixed_costs, price_per_unit, variable_cost_per_unit) ==
  LET contribution_margin == price_per_unit - variable_cost_per_unit
      break_even_units == IF contribution_margin > 0
                            THEN Div(fixed_costs, contribution_margin)
                            ELSE Rat(0, 1)
      break_even_revenue == Mul(break_even_units, Rat(price_per_unit, 1))
  IN  [break_even_units |-> round2(break_even_units),
       break_even_revenue |-> round2(break_even_revenue),
       contribution_margin |-> contribution_margin,
       contribution_margin_ratio |->
         IF price_per_unit > 0
           THEN round4(Div(contribution_margin, price_per_unit)) ELSE 0,
       interpretation |-> "Need to sell",
       formula |-> "Break-Even = Fixed Costs / (Price - Variable Cost)"]

calculate_gross_margin(revenue, cogs) ==
  LET gross_profit == revenue - cogs
      gross_margin == IF revenue > 0 THEN Div(gross_profit, revenue) ELSE Rat(0, 1)
  IN  [gross_profit |-> gross_profit,
       gross_margin |-> round4(gross_margin),
       gross_margin_percentage |-> percentage(gross_margin),
       interpretation |-> IF gt(gross_margin, 3, 10) THEN "healthy" ELSE "low",
       formula |-> "Gross Margin = (Revenue - COGS) / Revenue"]

calculate_net_margin(revenue, total_costs) ==
  LET net_profit == revenue - total_costs
      net_margin == IF revenue > 0 THEN Div(net_profit, revenue) ELSE Rat(0, 1)
  IN  [net_profit |-> net_profit,
       net_margin |-> round4(net_margin),
       net_margin_percentage |-> percentage(net_margin),
       interpretation |-> "Net margin",
       formula |-> "Net Margin = (Revenue - Total Costs) / Revenue"]

\* the working capital with the current ratio of a company without
\* liabilities taken as its assets
calculate_working_capital_debt_free(current_assets, current_liabilities) ==
  LET working_capital == current_assets - current_liabilities
      current_ratio == IF current_liabilities > 0
                         THEN Div(current_assets, current_liabilities)
                         ELSE Rat(current_assets, 1)
  IN  [working_capital |-> working_capital,
       current_ratio |-> round4(current_ratio),
       current_assets |-> current_assets,
       current_liabilities |-> current_liabilities,
       liquidity_status |-> IF gt(current_ratio, 3, 2) THEN "Healthy"
                            ELSE IF gt(current_ratio, 1, 1) THEN "Adequate"
                            ELSE "Concerning",
       interpretation |-> "Working capital",
       formula |-> "Working Capital = Current Assets - Current Liabilities"]

calculate_working_capital(current_assets, current_liabilities) ==
  LET working_capital == current_assets - current_liabilities
      current_ratio == IF current_liabilities > 0
                         THEN Div(current_assets, current_liabilities)
                         ELSE Rat(0, 1)
  IN  [working_capital |-> working_capital,
       current_ratio |-> round4(current_ratio),
       current_assets |-> current_assets,
       current_liabilities |-> current_liabilities,
       liquidity_status |-> IF gt(current_ratio, 3, 2) THEN "Healthy"
                            ELSE IF gt(current_ratio, 1, 1) THEN "Adequate"
                            ELSE "Concerning",
       interpretation |-> "Working capital",
       formula |-> "Working Capital = Current Assets - Current Liabilities"]

calculate_debt_to_equity(total_debt, total_equity) ==
  LET de_ratio == IF total_equity > 0 THEN Div(total_debt, total_equity) ELSE Rat(0, 1)
  IN  [debt_to_equity |-> round4(de_ratio),
       total_debt |-> total_debt,
       total_equity |-> total_equity,
       leverage |-> IF gt(de_ratio, 2, 1) THEN "High"
                    ELSE IF gt(de_ratio, 1, 1) THEN "Moderate"
                    ELSE "Conservative",
       interpretation |-> IF gt(de_ratio, 2, 1) THEN "high"
                          ELSE IF gt(de_ratio, 1, 1) THEN "moderate"
                          ELSE "low",
       formula |-> "D/E Ratio = Total Debt / Total Equity"]

calculate_inventory_turnover(cogs, average_inventory) ==
  LET turnover == IF average_inventory > 0
                    THEN Div(cogs, average_inventory) ELSE Rat(0, 1)
      days_inventory == IF gt(turnover, 0, 1)
                          THEN Div(365 * turnover.den, turnover.num)
                          ELSE Rat(0, 1)
  IN  [inventory_turnover |-> round4(turnover),
       days_inventory_outstanding |-> round2(days_inventory),
       cogs |-> cogs,
       average_inventory |-> average_inventory,
       efficiency |-> IF gt(turnover, 10, 1) THEN "Excellent"
                      ELSE IF gt(turnover, 5, 1) THEN "Good"
                      ELSE "Needs Improvement",
       interpretation |-> "Inventory turns over",
       formula |-> "Inventory Turnover = COGS / Average Inventory"]

\* industry_kpis.py, IndustryKPIs.calculate_inventory_turnover: the retail
\* KPI of the same name (round(turnover, 2), round(days, 0))
IndustryKPIs_calculate_inventory_turnover(cogs, avg_inventory) ==
  IF avg_inventory = 0 THEN error_record("Average inventory cannot be zero")
  ELSE
    LET turnover == Div(cogs, avg_inventory)
        days_inventory == IF gt(turnover, 0, 1)
                            THEN Div(365 * turnover.den, turnover.num)
                            ELSE Rat(0, 1)
        status == IF gt(turnover, 8, 1) THEN "Excellent - Fast moving inventory"
                  ELSE IF gt(turnover, 4, 1) THEN "Good - Healthy turnover"
                  ELSE IF gt(turnover, 2, 1) THEN "Average - Monitor closely"
                  ELSE "Slow - Overstocking risk"
    IN  [inventory_turnover |-> round2(turnover),
         days_inventory_outstanding |-> round_half_even(days_inventory.num, days_inventory.den),
         cogs |-> cogs,
         avg_inventory |-> avg_inventory,
         status |-> status,
         insight |-> status,
         benchmark |-> "Retail average: 4-8 times/year"]

calculate_revenue_per_hour(total_revenue, total_hours) ==
  LET rph == IF total_hours > 0 THEN Div(total_revenue, total_hours) ELSE Rat(0, 1)
  IN  [revenue_per_hour |-> round4(rph),
       total_revenue |-> total_revenue,
       total_hours |-> total_hours,
       daily_revenue |-> round2(Mul(rph, Rat(8, 1))),
       monthly_revenue |-> round2(Mul(rph, Rat(160, 1))),
       interpretation |-> "Generating",
       formula |-> "Revenue per Hour = Total Revenue / Total Hours"]

calculate_sales_growth(current_sales, previous_sales) ==
  LET growth == IF previous_sales > 0
                  THEN Div(current_sales - previous_sales, previous_sales)
                  ELSE Rat(0, 1)
  IN  [sales_growth |-> round4(growth),
       sales_growth_percentage |-> percentage(growth),
       current_sales |-> current_sales,
       previous_sales |-> previous_sales,
       trend |-> IF gt(growth, 0, 1) THEN "Growing" ELSE "Declining",
       interpretation |-> IF gt(growth, 0, 1) THEN "grew" ELSE "declined",
       formula |-> "Sales Growth = (Current - Previous) / Previous"]

\* calculate_payback_period dividing without the guard: the division by
\* zero is caught and reported
calculate_payback_period_unguarded(initial_investment, annual_cashflow) ==
  IF annual_cashflow = 0 THEN error_record("division by zero")
  ELSE
    LET payback == Div(initial_investment, annual_cashflow)
    IN  [payback_period_years |-> round2(payback),
         payback_period_months |-> round_half_even(payback.num * 120, payback.den),
         initial_investment |-> initial_investment,
         annual_cashflow |-> annual_cashflow,
         attractiveness |-> IF lt(payback, 3, 1) THEN "Attractive"
                            ELSE IF lt(payback, 5, 1) THEN "Acceptable"
                            ELSE "Risky",
         interpretation |-> "Investment pays back",
         formula |-> "Payback Period = Initial Investment / Annual Cash Flow"]

calculate_payback_period(initial_investment, annual_cashflow) ==
  LET payback == IF annual_cashflow > 0
                   THEN Div(initial_investment, annual_cashflow) ELSE Rat(0, 1)
  IN  [payback_period_years |-> round2(payback),
       payback_period_months |-> round_half_even(payback.num * 120, payback.den),
       initial_investment |-> initial_investment,
       annual_cashflow |-> annual_cashflow,
       attractiveness |-> IF lt(payback, 3, 1) THEN "Attractive"
                          ELSE IF lt(payback, 5, 1) THEN "Acceptable"
                          ELSE "Risky",
       interpretation |-> "Investment pays back",
       formula |-> "Payback Period = Initial Investment / Annual Cash Flow"]

calculate_profitability_index(npv, initial_investment) ==
  LET pv_future_cashflows == npv + initial_investment
      pi == IF initial_investment > 0
              THEN Div(pv_future_cashflows, initial_investment) ELSE Rat(0, 1)
  IN  [profitability_index |-> round4(pi),
       npv |-> npv,
       initial_investment |-> initial_investment,
       decision |-> IF gt(pi, 1, 1) THEN "Accept" ELSE "Reject",
       interpretation |-> IF gt(pi, 1, 1) THEN "creates" ELSE "destroys",
       formula |-> "PI = (NPV + Initial Investment) / Initial Investment"]

calculate_cash_flow_analysis(revenue, expenses, initial_cash) ==
  LET net_cashflow == revenue - expenses
      ending_cash == initial_cash + net_cashflow
      cashflow_margin == IF revenue > 0 THEN Div(net_cashflow, revenue) ELSE Rat(0, 1)
  IN  [net_cashflow |-> net_cashflow,
       initial_cash |-> initial_cash,
       ending_cash |-> ending_cash,
       cashflow_margin |-> round4(cashflow_margin),
       cashflow_margin_percentage |-> percentage(cashflow_margin),
       status |-> IF net_cashflow > 0 THEN "Positive" ELSE "Negative",
       interpretation |-> IF net_cashflow > 0 THEN "Positive" ELSE "Negative",
       formula |-> "Net Cash Flow = Revenue - Expenses"]

\* calculate_wacc without the tax shield on the cost of debt
calculate_wacc_pretax(equity, debt, cost_of_equity, cost_of_debt, tax_rate) ==
  LET total_capital == equity + debt IN
  IF total_capital = 0
    THEN error_record("Total capital (Equity + Debt) is zero")
  ELSE
    LET equity_weight == Div(equity, total_capital)
        debt_weight == Div(debt, total_capital)
        wacc == Add(Mul(equity_weight, cost_of_equity),
                    Mul(debt_weight, cost_of_debt))
    IN  [wacc |-> round4(wacc),
         wacc_percentage |-> percentage(wacc),
         equity |-> equity,
         debt |-> debt,
         total_capital |-> total_capital,
         equity_weight |-> round4(equity_weight),
         debt_weight |-> round4(debt_weight),
         cost_of_equity |-> round4(cost_of_equity),
         cost_of_debt |-> round4(cost_of_debt),
         tax_rate |-> round4(tax_rate),
         after_tax_cost_of_debt |-> round4(cost_of_debt),
         interpretation |-> "Moderate cost of capital - typical range",
         formula |-> "WACC = (E/V x Re) + (D/V x Rd x (1 - T))",
         recommendation |-> "Use WACC as discount rate for NPV calculations"]

calculate_wacc(equity, debt, cost_of_equity, cost_of_debt, tax_rate) ==
  LET total_capital == equity + debt IN
  IF total_capital = 0
    THEN error_record("Total capital (Equity + Debt) is zero")
  ELSE
    LET equity_weight == Div(equity, total_capital)
        debt_weight == Div(debt, total_capital)
        one_minus_tax == Add(Rat(1, 1), Rat(-tax_rate.num, tax_rate.den))
        after_tax_cost_of_debt == Mul(cost_of_debt, one_minus_tax)
        wacc == Add(Mul(equity_weight, cost_of_equity),
                    Mul(debt_weight, after_tax_cost_of_debt))
    IN  [wacc |-> round4(wacc),
         wacc_percentage |-> percentage(wacc),
         equity |-> equity,
         debt |-> debt,
         total_capital |-> total_capital,
         equity_weight |-> round4(equity_weight),
         debt_weight |-> round4(debt_weight),
         cost_of_equity |-> round4(cost_of_equity),
         cost_of_debt |-> round4(cost_of_debt),
         tax_rate |-> round4(tax_rate),
         after_tax_cost_of_debt |-> round4(after_tax_cost_of_debt),
         interpretation |->
           IF lt(wacc, 8, 100)
             THEN "Low cost of capital - favorable for investments"
           ELSE IF lt(wacc, 12, 100)
             THEN "Moderate cost of capital - typical range"
           ELSE "High cost of capital - projects need higher returns",
         formula |-> "WACC = (E/V x Re) + (D/V x Rd x (1 - T))",
         recommendation |-> "Use WACC as discount rate for NPV calculations"]

calculate_ebitda(revenue, operating_expenses, depreciation, amortization) ==
  LET ebitda == revenue - operating_expenses + depreciation + amortization
      ebitda_margin == IF revenue > 0 THEN Div(ebitda * 100, revenue) ELSE Rat(0, 1)
  IN  [ebitda |-> ebitda,
       revenue |-> revenue,
       operating_expenses |-> operating_expenses,
       depreciation |-> depreciation,
       amortization |-> amortization,
       ebitda_margin |-> round2(ebitda_margin),
       interpretation |->
         IF gt(ebitda_margin, 20, 1) THEN "Strong operational profitability"
         ELSE IF gt(ebitda_margin, 10, 1) THEN "Healthy EBITDA margin"
         ELSE IF gt(ebitda_margin, 0, 1) THEN "Positive but low EBITDA margin"
         ELSE "Negative EBITDA - operational losses",
       formula |-> "EBITDA = Revenue - Operating Expenses + D&A",
       status |-> IF ebitda > 0 THEN "Positive" ELSE "Negative"]

calculate_operating_cash_flow_ratio(operating_cashflow, current_liabilities) ==
  IF current_liabilities = 0
    THEN error_record("Current liabilities cannot be zero")
  ELSE
    LET ratio == Div(operating_cashflow, current_liabilities)
    IN  [operating_cashflow_ratio |-> round4(ratio),
         operating_cashflow |-> operating_cashflow,
         current_liabilities |-> current_liabilities,
         interpretation |->
           IF gt(ratio, 1, 1)
             THEN "Strong - can cover current liabilities with operating cash flow"
           ELSE IF gt(ratio, 1, 2) THEN "Adequate - reasonable cash flow coverage"
           ELSE "Weak - may struggle to meet current obligations",
         formula |-> "OCF Ratio = Operating Cash Flow / Current Liabilities",
         benchmark |-> "Ratio > 1 is considered healthy"]

\* calculate_asset_turnover with the soft guard of the ratio functions:
\* the ratio forced to 0 when there are no assets
calculate_asset_turnover_soft(revenue, total_assets) ==
  LET ratio == IF total_assets = 0 THEN Rat(0, 1) ELSE Div(revenue, total_assets)
  IN  [asset_turnover |-> round4(ratio),
       revenue |-> revenue,
       total_assets |-> total_assets,
       interpretation |-> "Low - underutilizing assets",
       formula |-> "Asset Turnover = Revenue / Total Assets",
       benchmark |-> "Higher ratio indicates better asset efficiency"]

calculate_asset_turnover(revenue, total_assets) ==
  IF total_assets = 0 THEN error_record("Total assets cannot be zero")
  ELSE
    LET ratio == Div(revenue, total_assets)
    IN  [asset_turnover |-> round4(ratio),
         revenue |-> revenue,
         total_assets |-> total_assets,
         interpretation |->
           IF gt(ratio, 2, 1) THEN "Excellent - highly efficient asset utilization"
           ELSE IF gt(ratio, 1, 1) THEN "Good - efficient use of assets"
           ELSE IF gt(ratio, 1, 2) THEN "Moderate - average asset efficiency"
           ELSE "Low - underutilizing assets",
         formula |-> "Asset Turnover = Revenue / Total Assets",
         benchmark |-> "Higher ratio indicates better asset efficiency"]

----------------------------------------------------------------------------
(* Metric Selector/Dispatcher *)

\* the defaults calculate_all_metrics passes (lines 354, 409-411) and the
\* default seed of calculate_irr_fixed (line 73)
default_discount_rate == Rat(1, 10)
default_guess == Rat(1, 10)
default_cost_of_equity == Rat(3, 25)
default_cost_of_debt == Rat(3, 50)
default_tax_rate == Rat(3, 10)

\* wacc_entry with equity and debt passed in each other's place
wacc_entry_swapped(fd) ==
  IF "equity" \in DOMAIN fd /\ "liabilities" \in DOMAIN fd
    THEN LET equity_val == fd["equity"]
             debt_val == fd["liabilities"]
         IN  IF equity_val > 0 /\ debt_val > 0
               THEN Some(calculate_wacc(debt_val, equity_val, default_cost_of_equity,
                                        default_cost_of_debt, default_tax_rate))
               ELSE Some(error_record("Need positive Equity and Liabilities/Debt values for WACC calculation"))
    ELSE None

\* wacc_entry with `>= 0` for `> 0`
wacc_entry_nonnegative(fd) ==
  IF "equity" \in DOMAIN fd /\ "liabilities" \in DOMAIN fd
    THEN LET equity_val == fd["equity"]
             debt_val == fd["liabilities"]
         IN  IF equity_val >= 0 /\ debt_val >= 0
               THEN Some(calculate_wacc(equity_val, debt_val, default_cost_of_equity,
                                        default_cost_of_debt, default_tax_rate))
               ELSE Some(error_record("Need positive Equity and Liabilities/Debt values for WACC calculation"))
    ELSE None

\* wacc_entry without the `if 'equity' in ... and 'liabilities' in ...`
\* around it: the .get(..., 0) defaults then stand in for a missing key
wacc_entry_unguarded(fd) ==
  LET equity_val == IF "equity" \in DOMAIN fd THEN fd["equity"] ELSE 0
      debt_val == IF "liabilities" \in DOMAIN fd THEN fd["liabilities"] ELSE 0
  IN  IF equity_val > 0 /\ debt_val > 0
        THEN Some(calculate_wacc(equity_val, debt_val, default_cost_of_equity,
                                 default_cost_of_debt, default_tax_rate))
        ELSE Some(error_record("Need positive Equity and Liabilities/Debt values for WACC calculation"))

\* lines 399-414: the 'wacc' entry of the bundle, None when it is not set
wacc_entry(fd) ==
  IF "equity" \in DOMAIN fd /\ "liabilities" \in DOMAIN fd
    THEN LET equity_val == fd["equity"]
             debt_val == fd["liabilities"]
         IN  IF equity_val > 0 /\ debt_val > 0
               THEN Some(calculate_wacc(equity_val, debt_val, default_cost_of_equity,
                                        default_cost_of_debt, default_tax_rate))
               ELSE Some(error_record("Need positive Equity and Liabilities/Debt values for WACC calculation"))
    ELSE None

\* store without the entries that are error records
store_skip_errors(results, key, opt) ==
  IF opt # None /\ "error" \notin DOMAIN opt[1]
    THEN put(results, key, opt[1]) ELSE results

\* store that stops storing once an entry of results is an error record
store_until_error(results, key, opt) ==
  IF \E k \in DOMAIN results : "error" \in DOMAIN results[k]
    THEN results ELSE with_key(results, key, opt)

\* `if <prerequisites>: results[key] = <metric>`: opt is None when the
\* prerequisites are missing
store(results, key, opt) == with_key(results, key, opt)

\* The dict `results` is built entry by entry; an entry that is not set is
\* None.
calculate_all_metrics(fd, solver) ==
  LET has(k) == k \in DOMAIN fd
      revenue == fd["revenue"].total
      cost == fd["cost"].total
      when(cond, entry) == IF cond THEN Some(entry) ELSE None
      profit_loss == when(has("revenue") /\ has("cost"),
                          calculate_profit_loss_ratio(revenue, cost))
      roi == when(has("revenue") /\ has("cost") /\ has("investment"),
                  calculate_roi(revenue, cost, fd["investment"]))
      npv == when(has("cashflows"),
                  calculate_npv_fixed(fd["cashflows"], default_discount_rate))
      irr == when(has("cashflows"),
                  calculate_irr_fixed(fd["cashflows"], default_guess, solver))
      gross_margin == when(has("revenue") /\ has("cost"),
                           calculate_gross_margin(revenue, cost))
      net_margin == when(has("revenue") /\ has("cost"),
                         calculate_net_margin(revenue, cost))
      working_capital == when(has("assets") /\ has("liabilities"),
                              calculate_working_capital(fd["assets"], fd["liabilities"]))
      debt_to_equity == when(has("liabilities") /\ has("equity"),
                             calculate_debt_to_equity(fd["liabilities"], fd["equity"]))
      inventory_turnover == when(has("cost") /\ has("assets"),
                                 calculate_inventory_turnover(cost, fd["assets"]))
      cashflow_analysis == when(has("revenue") /\ has("cost"),
                                calculate_cash_flow_analysis(revenue, cost, 0))
      ebitda == when(has("revenue") /\ has("cost"),
                     calculate_ebitda(revenue, cost, 0, 0))
  IN  store(store(store(store(store(store(store(store(store(store(store(store(
        empty_dict,
        "profit_loss", profit_loss), "roi", roi), "npv", npv), "irr", irr),
        "gross_margin", gross_margin), "net_margin", net_margin),
        "working_capital", working_capital), "debt_to_equity", debt_to_equity),
        "inventory_turnover", inventory_turnover),
        "cashflow_analysis", cashflow_analysis), "wacc", wacc_entry(fd)),
        "ebitda", ebitda)

\* what scipy's fsolve (and numpy's irr after it) may do on a call
SolverRoots == { Rat(1, 7), Rat(-1, 2) }
no_solver == [kind |-> "fail", root |-> Rat(0, 1)]
Solvers == [kind : {"fsolve", "np_irr"}, root : SolverRoots] \cup {no_solver}

\* the cash flows of test_all_fixes.py (tests 2 and 3),
\* [-100000, 30000, 40000, 50000, 40000], in units of 10,000
test_cashflows == << -10, 3, 4, 5, 4 >>

\* the rate fsolve returns for test_cashflows from the seed 0.1, to 5
\* decimals: 0.20496 (NPV is convex and decreasing from the seed to its only
\* zero above -1, so the iteration converges)
test_cashflows_root == Rat(1281, 6250)

\* calculate_irr_fixed reaches fsolve only with 2 or more cash flows
solvers_for(cashflows) ==
  IF Len(cashflows) < 2 THEN {no_solver}
  ELSE IF cashflows = test_cashflows
    THEN {[kind |-> "fsolve", root |-> test_cashflows_root]}
  ELSE Solvers

dispatcher_solvers(fd) ==
  IF "cashflows" \in DOMAIN fd THEN solvers_for(fd["cashflows"]) ELSE {no_solver}

\* AdvancedFinancialCalculator.calculate_all_metrics(financial_data) on the
\* aggregates the analyzer extracted
calculate ==
  /\ financial_data # None
  /\ \E solver \in dispatcher_solvers(financial_data[1]) :
       /\ call' = called("calculate_all_metrics", financial_data, solver)
       /\ ret' = Some(calculate_all_metrics(financial_data[1], solver))
  /\ UNCHANGED << df_columns, df_data, columns, business_type, detected_columns,
                  metrics_available, financial_data >>

Next == analyze_dataset \/ extract \/ calculate

Spec == Init /\ [][Next]_vars

----------------------------------------------------------------------------
(* The calculator called directly: every method is static *)

\* longest cash-flow list passed to the calculator
MaxCF == 2

Amounts == {-1, 0, 2}
CashflowLists == {<<>>} \cup SeqsUpTo({-1, 2}, MaxCF)
DiscountRates == { Rat(1, 10), Rat(0, 1), Rat(-1, 1) }
CostRates == { Rat(3, 25), Rat(3, 50) }
TaxRates == { Rat(3, 10), Rat(0, 1) }

\* an optional dict entry: None, or Some(value)
Opt(S) == {None} \cup {Some(x) : x \in S}

\* aggregates as extract_financial_data builds them (lines 185-196)
aggregate_of(series) ==
  [total |-> sum(series), mean |-> mean(series), series |-> series]
failed_aggregate ==
  [total |-> 0, mean |-> Rat(0, 1), series |-> <<>>,
   error |-> "Could not process column"]

RevenueAggregates == { aggregate_of(<<0>>), aggregate_of(<<2>>), failed_aggregate }
CostAggregates == { aggregate_of(<<0>>), aggregate_of(<<2>>), aggregate_of(<<3>>) }

\* no analyzer is constructed
InitCalc ==
  /\ df_columns = <<>>
  /\ df_data = <<>>
  /\ columns = <<>>
  /\ business_type = "None"
  /\ detected_columns = empty_dict
  /\ metrics_available = <<>>
  /\ financial_data = None
  /\ call = None
  /\ ret = None

analyzer_vars == << df_columns, df_data, columns, business_type,
                    detected_columns, metrics_available, financial_data >>

call_profit_loss_ratio ==
  /\ call = None
  /\ \E a, b \in Amounts :
       /\ call' = called("calculate_profit_loss_ratio", <<a, b>>, no_solver)
       /\ ret' = Some(calculate_profit_loss_ratio(a, b))
  /\ UNCHANGED analyzer_vars

\* a level series of four cash flows
level_cashflows == << 1, 1, 1, 1 >>

call_npv_fixed ==
  /\ call = None
  /\ \E cf \in CashflowLists \cup {level_cashflows}, r \in DiscountRates :
       /\ call' = called("calculate_npv_fixed", <<cf, r>>, no_solver)
       /\ ret' = Some(calculate_npv_fixed(cf, r))
  /\ UNCHANGED analyzer_vars

call_irr_fixed ==
  /\ call = None
  /\ \E cf \in CashflowLists \cup {test_cashflows} : \E solver \in solvers_for(cf) :
       /\ call' = called("calculate_irr_fixed", <<cf, default_guess>>, solver)
       /\ ret' = Some(calculate_irr_fixed(cf, default_guess, solver))
  /\ UNCHANGED analyzer_vars

call_roi ==
  /\ call = None
  /\ \E a, b, c \in Amounts :
       /\ call' = called("calculate_roi", <<a, b, c>>, no_solver)
       /\ ret' = Some(calculate_roi(a, b, c))
  /\ UNCHANGED analyzer_vars

call_break_even ==
  /\ call = None
  /\ \E a, b, c \in Amounts :
       /\ call' = called("calculate_break_even", <<a, b, c>>, no_solver)
       /\ ret' = Some(calculate_break_even(a, b, c))
  /\ UNCHANGED analyzer_vars

call_gross_margin ==
  /\ call = None
  /\ \E a, b \in Amounts :
       /\ call' = called("calculate_gross_margin", <<a, b>>, no_solver)
       /\ ret' = Some(calculate_gross_margin(a, b))
  /\ UNCHANGED analyzer_vars

call_net_margin ==
  /\ call = None
  /\ \E a, b \in Amounts :
       /\ call' = called("calculate_net_margin", <<a, b>>, no_solver)
       /\ ret' = Some(calculate_net_margin(a, b))
  /\ UNCHANGED analyzer_vars

call_working_capital ==
  /\ call = None
  /\ \E a, b \in Amounts :
       /\ call' = called("calculate_working_capital", <<a, b>>, no_solver)
       /\ ret' = Some(calculate_working_capital(a, b))
  /\ UNCHANGED analyzer_vars

call_debt_to_equity ==
  /\ call = None
  /\ \E a, b \in Amounts :
       /\ call' = called("calculate_debt_to_equity", <<a, b>>, no_solver)
       /\ ret' = Some(calculate_debt_to_equity(a, b))
  /\ UNCHANGED analyzer_vars

call_inventory_turnover ==
  /\ call = None
  /\ \E a, b \in Amounts :
       /\ call' = called("calculate_inventory_turnover", <<a, b>>, no_solver)
       /\ ret' = Some(calculate_inventory_turnover(a, b))
  /\ UNCHANGED analyzer_vars

call_IndustryKPIs_inventory_turnover ==
  /\ call = None
  /\ \E a, b \in Amounts :
       /\ call' = called("IndustryKPIs.calculate_inventory_turnover", <<a, b>>, no_solver)
       /\ ret' = Some(IndustryKPIs_calculate_inventory_turnover(a, b))
  /\ UNCHANGED analyzer_vars

call_revenue_per_hour ==
  /\ call = None
  /\ \E a, b \in Amounts :
       /\ call' = called("calculate_revenue_per_hour", <<a, b>>, no_solver)
       /\ ret' = Some(calculate_revenue_per_hour(a, b))
  /\ UNCHANGED analyzer_vars

call_sales_growth ==
  /\ call = None
  /\ \E a, b \in Amounts :
       /\ call' = called("calculate_sales_growth", <<a, b>>, no_solver)
       /\ ret' = Some(calculate_sales_growth(a, b))
  /\ UNCHANGED analyzer_vars

call_payback_period ==
  /\ call = None
  /\ \E a, b \in Amounts :
       /\ call' = called("calculate_payback_period", <<a, b>>, no_solver)
       /\ ret' = Some(calculate_payback_period(a, b))
  /\ UNCHANGED analyzer_vars

call_profitability_index ==
  /\ call = None
  /\ \E a, b \in Amounts :
       /\ call' = called("calculate_profitability_index", <<a, b>>, no_solver)
       /\ ret' = Some(calculate_profitability_index(a, b))
  /\ UNCHANGED analyzer_vars

call_cash_flow_analysis ==
  /\ call = None
  /\ \E a, b, c \in Amounts :
       /\ call' = called("calculate_cash_flow_analysis", <<a, b, c>>, no_solver)
       /\ ret' = Some(calculate_cash_flow_analysis(a, b, c))
  /\ UNCHANGED analyzer_vars

\* the capital structure of test_wacc.py (test 1)
test_equity == 500000
test_debt == 300000
CapitalStructures == (Amounts \X Amounts) \cup { <<test_equity, test_debt>> }

call_wacc ==
  /\ call = None
  /\ \E v \in CapitalStructures, re, rd \in CostRates, t \in TaxRates :
       /\ call' = called("calculate_wacc", <<v[1], v[2], re, rd, t>>, no_solver)
       /\ ret' = Some(calculate_wacc(v[1], v[2], re, rd, t))
  /\ UNCHANGED analyzer_vars

call_ebitda ==
  /\ call = None
  /\ \E a, b, c, d \in Amounts :
       /\ call' = called("calculate_ebitda", <<a, b, c, d>>, no_solver)
       /\ ret' = Some(calculate_ebitda(a, b, c, d))
  /\ UNCHANGED analyzer_vars

call_operating_cash_flow_ratio ==
  /\ call = None
  /\ \E a, b \in Amounts :
       /\ call' = called("calculate_operating_cash_flow_ratio", <<a, b>>, no_solver)
       /\ ret' = Some(calculate_operating_cash_flow_ratio(a, b))
  /\ UNCHANGED analyzer_vars

call_asset_turnover ==
  /\ call = None
  /\ \E a, b \in Amounts :
       /\ call' = called("calculate_asset_turnover", <<a, b>>, no_solver)
       /\ ret' = Some(calculate_asset_turnover(a, b))
  /\ UNCHANGED analyzer_vars

\* calculate_all_metrics on a hand-built aggregate set (as test_wacc.py and
\* test_all_fixes.py call it)
aggregate_set(revenue, cost, investment, cashflows, assets, liabilities, equity) ==
  with_key(with_key(with_key(with_key(with_key(with_key(with_key(
    empty_dict, "revenue", revenue), "cost", cost), "investment", investment),
    "cashflows", cashflows), "assets", assets), "liabilities", liabilities),
    "equity", equity)

AggregateSets ==
  { aggregate_set(revenue, cost, investment, cashflows, assets, liabilities, equity) :
      revenue \in Opt(RevenueAggregates), cost \in Opt(CostAggregates),
      investment \in Opt({0, 2}), cashflows \in Opt(CashflowLists),
      assets \in Opt({0, 2}), liabilities \in Opt(Amounts), equity \in Opt(Amounts) }

\* the totals of test_all_fixes.py (test 4): revenue 500000, cost 350000
test_revenue == 500000
test_cost == 350000
test_aggregates ==
  aggregate_set(Some(aggregate_of(<<test_revenue>>)),
                Some(aggregate_of(<<test_cost>>)), None, None, None, None, None)

call_all_metrics ==
  /\ call = None
  /\ \E fd \in AggregateSets \cup {test_aggregates} :
     \E solver \in dispatcher_solvers(fd) :
       /\ call' = called("calculate_all_metrics", Some(fd), solver)
       /\ ret' = Some(calculate_all_metrics(fd, solver))
  /\ UNCHANGED analyzer_vars

----------------------------------------------------------------------------
(* LLMFinancialAnalyzer *)

\* one generated sentence: the text of the f-string and the numbers put into
\* it, a number formatted with .2f being a count of hundredths
message(text, args) == [text |-> text, args |-> args]

\* f"{x:.2f}" of a value held as a count of 10^-4
hundredths(v) == round_half_even(v, 100)

\* d.get(key, default)
get(d, key, default) == IF key \in DOMAIN d THEN d[key] ELSE default

insight_sections ==
  {"key_insights", "strengths", "concerns", "recommendations", "anomalies",
   "risks", "opportunities"}

no_insights == [k \in insight_sections |-> <<>>]

\* what one block of rules appends to the lists
appended(found) == [k \in insight_sections |-> get(found, k, <<>>)]

\* the lists after the next block of rules has appended to them
then(insights, found) == [k \in insight_sections |-> insights[k] \o found[k]]

\* a subscript of a metric entry that raises KeyError
key_error(metrics_results) ==
  LET has(k) == k \in DOMAIN metrics_results
      lacks(k, field) == has(k) /\ field \notin DOMAIN metrics_results[k]
  IN  \/ lacks("profit_loss", "profit")
      \/ /\ has("profit_loss")
         /\ get(metrics_results["profit_loss"], "is_profitable", FALSE)
         /\ lacks("profit_loss", "profit_percentage")
      \/ lacks("gross_margin", "gross_margin_percentage")
      \/ lacks("roi", "roi_percentage")
      \/ lacks("working_capital", "current_ratio")

\* Analyze profitability
profitability_rules(metrics_results) ==
  IF "profit_loss" \notin DOMAIN metrics_results THEN no_insights
  ELSE LET pl == metrics_results["profit_loss"] IN
       IF get(pl, "is_profitable", FALSE)
         THEN appended(
           [strengths |-> << message("Profitable operations with {:.2f}% profit margin",
                                     <<pl.profit_percentage>>) >>,
            key_insights |-> << message("Business is generating profit of ${:,.2f}",
                                        <<pl.profit * 100>>) >>])
         ELSE appended(
           [concerns |-> << message("Operating at a loss of ${:,.2f}",
                                    <<(IF pl.profit < 0 THEN -pl.profit ELSE pl.profit) * 100>>) >>,
            recommendations |-> << message("Focus on reducing costs or increasing revenue to achieve profitability", <<>>) >>])

\* Analyze margins
margin_rules(metrics_results) ==
  IF "gross_margin" \notin DOMAIN metrics_results THEN no_insights
  ELSE LET gm == metrics_results["gross_margin"] IN
       IF gm.gross_margin_percentage > 3000
         THEN appended(
           [strengths |-> << message("Strong gross margin of {:.2f}%",
                                     <<gm.gross_margin_percentage>>) >>])
       ELSE IF gm.gross_margin_percentage < 2000
         THEN appended(
           [concerns |-> << message("Low gross margin of {:.2f}%",
                                    <<gm.gross_margin_percentage>>) >>,
            recommendations |-> << message("Consider increasing prices or reducing cost of goods sold", <<>>) >>])
       ELSE no_insights

\* Analyze ROI
roi_rules(metrics_results) ==
  IF "roi" \notin DOMAIN metrics_results THEN no_insights
  ELSE LET roi == metrics_results["roi"] IN
       IF roi.roi_percentage > 2000
         THEN appended(
           [key_insights |-> << message("Excellent ROI of {:.2f}%", <<roi.roi_percentage>>) >>,
            strengths |-> << message("Investment is generating strong returns", <<>>) >>])
       ELSE IF roi.roi_percentage < 0
         THEN appended(
           [concerns |-> << message("Negative ROI of {:.2f}%", <<roi.roi_percentage>>) >>,
            recommendations |-> << message("Re-evaluate investment strategy and cost structure", <<>>) >>])
       ELSE no_insights

\* Analyze NPV
npv_rules(metrics_results) ==
  IF "npv" \notin DOMAIN metrics_results THEN no_insights
  ELSE LET npv == metrics_results["npv"] IN
       IF get(npv, "npv", 0) > 0
         THEN appended(
           [key_insights |-> << message("Positive NPV of ${:,.2f} indicates value creation",
                                        <<hundredths(npv.npv)>>) >>,
            opportunities |-> << message("Consider expanding similar profitable projects", <<>>) >>])
         ELSE appended(
           [concerns |-> << message("Negative NPV suggests project may destroy value", <<>>) >>])

\* the risk and the recommendation of a current ratio under 1 put after the
\* ratio is over 2
working_capital_rules_over_two(metrics_results) ==
  IF "working_capital" \notin DOMAIN metrics_results THEN no_insights
  ELSE LET wc == metrics_results["working_capital"] IN
       IF get(wc, "current_ratio", 0) > 20000
         THEN appended(
           [concerns |-> << message("Low current ratio of {:.2f} indicates liquidity issues",
                                    <<hundredths(wc.current_ratio)>>) >>,
            risks |-> << message("May struggle to meet short-term obligations", <<>>) >>,
            recommendations |-> << message("Improve cash management and reduce current liabilities", <<>>) >>])
       ELSE no_insights

\* Analyze working capital
working_capital_rules(metrics_results) ==
  IF "working_capital" \notin DOMAIN metrics_results THEN no_insights
  ELSE LET wc == metrics_results["working_capital"] IN
       IF get(wc, "current_ratio", 0) < 10000
         THEN appended(
           [concerns |-> << message("Low current ratio of {:.2f} indicates liquidity issues",
                                    <<hundredths(wc.current_ratio)>>) >>,
            risks |-> << message("May struggle to meet short-term obligations", <<>>) >>,
            recommendations |-> << message("Improve cash management and reduce current liabilities", <<>>) >>])
       ELSE IF get(wc, "current_ratio", 0) > 20000
         THEN appended(
           [strengths |-> << message("Strong liquidity with current ratio of {:.2f}",
                                     <<hundredths(wc.current_ratio)>>) >>])
       ELSE no_insights

\* Analyze debt-to-equity
debt_to_equity_rules(metrics_results) ==
  IF "debt_to_equity" \notin DOMAIN metrics_results THEN no_insights
  ELSE LET de == metrics_results["debt_to_equity"] IN
       IF get(de, "debt_to_equity", 0) > 20000
         THEN appended(
           [risks |-> << message("High leverage with D/E ratio of {:.2f}",
                                 <<hundredths(de.debt_to_equity)>>) >>,
            recommendations |-> << message("Consider reducing debt levels or increasing equity", <<>>) >>])
       ELSE IF get(de, "debt_to_equity", 0) < 5000
         THEN appended(
           [strengths |-> << message("Conservative capital structure with low debt", <<>>) >>,
            opportunities |-> << message("Could leverage debt for growth if profitable", <<>>) >>])
       ELSE no_insights

\* General recommendations
general_rules(insights) ==
  IF insights.concerns = <<>>
    THEN appended(
      [recommendations |-> << message("Maintain current strong financial performance", <<>>) >>,
       opportunities |-> << message("Explore expansion or new market opportunities", <<>>) >>])
    ELSE no_insights

\* Add summary insight: key_insights.insert(0, ...)
summary_insight(insights) ==
  IF insights.strengths # <<>> /\ insights.concerns = <<>>
    THEN << message("Overall strong financial health with multiple positive indicators", <<>>) >>
  ELSE IF insights.concerns # <<>>
    THEN << message("Identified {} areas requiring attention", <<Len(insights.concerns)>>) >>
  ELSE <<>>

\* the dict returned: the lists, and 'source'
rule_based_record(insights) ==
  [k \in insight_sections \cup {"source"} |->
     IF k = "source" THEN "rule_based"
     ELSE IF k = "key_insights" THEN summary_insight(insights) \o insights[k]
     ELSE insights[k]]

KeyError == [raised |-> "KeyError"]

\* _generate_rule_based_insights(dataset_info, financial_data, metrics_results);
\* the first two arguments are not read
_generate_rule_based_insights(metrics_results) ==
  IF key_error(metrics_results) THEN KeyError
  ELSE LET rules == then(then(then(then(then(
                      profitability_rules(metrics_results),
                      margin_rules(metrics_results)),
                      roi_rules(metrics_results)),
                      npv_rules(metrics_results)),
                      working_capital_rules(metrics_results)),
                      debt_to_equity_rules(metrics_results))
       IN  rule_based_record(then(rules, general_rules(rules)))

\* the keyword of a section heading found in a lower-cased line, tested in
\* the order of the elif chain
section_keywords ==
  << [section |-> "key_insights", words |-> {<<"k","e","y"," ","i","n","s","i","g","h","t">>}],
     [section |-> "strengths", words |-> {<<"s","t","r","e","n","g","t","h">>}],
     [section |-> "concerns", words |-> {<<"c","o","n","c","e","r","n">>}],
     [section |-> "recommendations", words |-> {<<"r","e","c","o","m","m","e","n","d","a","t","i","o","n">>}],
     [section |-> "anomalies", words |-> {<<"a","n","o","m","a","l">>}],
     [section |-> "risks", words |-> {<<"r","i","s","k">>}],
     [section |-> "opportunities", words |-> { <<"o","p","p","o","r","t","u","n","i","t">>, <<"g","r","o","w","t","h">>}] >>

is_heading(line, k) == \E w \in section_keywords[k].words : contains(lower(line), w)

headings(line) == { k \in 1..Len(section_keywords) : is_heading(line, k) }

first_heading(line) == CHOOSE k \in headings(line) : \A j \in headings(line) : k <= j

digits == {"0", "1", "2", "3", "4", "5", "6", "7", "8", "9"}

bullet_chars == {"-", " ", "*", "."} \cup digits

\* line.lstrip('- *0123456789.'), the bullet sign written *
RECURSIVE lstrip_bullet(_)
lstrip_bullet(s) ==
  IF s # <<>> /\ Head(s) \in bullet_chars THEN lstrip_bullet(Tail(s)) ELSE s

is_bullet(line) == line[1] \in {"-", "*"} \cup digits

\* the loop over response_text.split('\n') from line i on
RECURSIVE parse_lines(_, _, _, _)
parse_lines(lines, i, current_section, sections) ==
  IF i > Len(lines) THEN sections
  ELSE LET line == strip(lines[i]) IN
       IF line = <<>> THEN parse_lines(lines, i + 1, current_section, sections)
       ELSE IF headings(line) # {}
         THEN parse_lines(lines, i + 1,
                          Some(section_keywords[first_heading(line)].section), sections)
       ELSE IF current_section # None /\ is_bullet(line)
         THEN parse_lines(lines, i + 1, current_section,
                          [sections EXCEPT ![current_section[1]] =
                             Append(@, strip(lstrip_bullet(line)))])
       ELSE parse_lines(lines, i + 1, current_section, sections)

\* _parse_llm_response(response_text)
_parse_llm_response(lines) == parse_lines(lines, 1, None, no_insights)

\* self.model
model == "gpt-4"

\* replies of the language model, as lists of lines
LLMResponses ==
  { << <<"K","e","y"," ","I","n","s","i","g","h","t","s",":">>, <<"-"," ","M","a","r","g","i","n","s"," ","u","p">> >>,
    << <<"1","."," ","L","o","s","t">>, <<"R","i","s","k","s">>, <<" ","2","."," ","D","e","b","t"," ">> >> }

\* what the environment does to the analysis: no API key is configured, or
\* the call of the language model raises, or it answers
LLMOutcomes ==
  { [use_llm |-> FALSE, reply |-> None], [use_llm |-> TRUE, reply |-> None] }
    \cup { [use_llm |-> TRUE, reply |-> Some(r)] : r \in LLMResponses }

\* LLMFinancialAnalyzer.analyze_dataset(dataset_info, financial_data,
\* metrics_results)
llm_analyze_dataset(metrics_results, llm) ==
  IF ~llm.use_llm THEN _generate_rule_based_insights(metrics_results)
  ELSE IF llm.reply = None THEN _generate_rule_based_insights(metrics_results)
  ELSE [insights |-> _parse_llm_response(llm.reply[1]),
        raw_analysis |-> llm.reply[1],
        model_used |-> model,
        source |-> "llm"]

\* a gross margin of 30% exactly: revenue 10, cost 7
margin_revenue == 10
margin_cost == 7

\* the aggregate sets the insights are generated for; cash flows of less
\* than two periods, which leave fsolve out
InsightAggregateSets ==
  { aggregate_set(revenue, cost, investment, cashflows, assets, liabilities, equity) :
      revenue \in Opt({ aggregate_of(<<0>>), aggregate_of(<<2>>),
                        aggregate_of(<<margin_revenue>>) }),
      cost \in Opt({ aggregate_of(<<3>>), aggregate_of(<<margin_cost>>) }),
      investment \in Opt({0, 2}),
      cashflows \in Opt({ <<>>, <<2>>, <<-1>> }),
      assets \in Opt({0, 2, 5}), liabilities \in Opt({0, 2, 4}),
      equity \in Opt({2}) }

\* analyze_dataset of the LLM analyzer on the bundle of an aggregate set
call_llm_analyze_dataset ==
  /\ call = None
  /\ \E fd \in InsightAggregateSets : \E llm \in LLMOutcomes :
     \E solver \in dispatcher_solvers(fd) :
       LET metrics_results == calculate_all_metrics(fd, solver) IN
       /\ call' = called("LLMFinancialAnalyzer.analyze_dataset",
                         <<fd, metrics_results, llm>>, solver)
       /\ ret' = Some(llm_analyze_dataset(metrics_results, llm))
  /\ UNCHANGED analyzer_vars

NextCalc ==
  \/ call_profit_loss_ratio
  \/ call_npv_fixed
  \/ call_irr_fixed
  \/ call_roi
  \/ call_break_even
  \/ call_gross_margin
  \/ call_net_margin
  \/ call_working_capital
  \/ call_debt_to_equity
  \/ call_inventory_turnover
  \/ call_IndustryKPIs_inventory_turnover
  \/ call_revenue_per_hour
  \/ call_sales_growth
  \/ call_payback_period
  \/ call_profitability_index
  \/ call_cash_flow_analysis
  \/ call_wacc
  \/ call_ebitda
  \/ call_operating_cash_flow_ratio
  \/ call_asset_turnover
  \/ call_all_metrics
  \/ call_llm_analyze_dataset

SpecCalc == InitCalc /\ [][NextCalc]_vars

----------------------------------------------------------------------------
(* Properties of the Column Classifier and the Business-Type Classifier *)

\* analyze_dataset has run on the analyzer
analysed == business_type # "None"

\* the columns, by position, whose lower-cased, trimmed name contains a
\* pattern of the role
roles_matching ==
  { p : p \in { q \in AllColumnNames \X Roles : matches(strip(lower(q[1])), q[2]) } }

matching_columns(key) ==
  { i \in 1..Len(df_columns) : <<df_columns[i], key>> \in roles_matching }

first_of(S) == CHOOSE i \in S : \A j \in S : i <= j

\* C1: after detection every role is assigned the first column in table
\* order whose lower-cased, trimmed name contains one of the role's
\* patterns, and a role that no column matches is absent from the Role Map;
\* a role holds one column, and a column may be held by several roles.
C1_FirstMatchingColumn ==
  analysed =>
    \A key \in Roles :
      IF matching_columns(key) = {}
        THEN key \notin DOMAIN detected_columns
        ELSE /\ key \in DOMAIN detected_columns
             /\ detected_columns[key] = df_columns[first_of(matching_columns(key))]

\* a role with two candidate columns of which the first is not the first
\* column of the table, and a column held by two roles
C1_Witness ==
  /\ analysed
  /\ \E key \in DOMAIN detected_columns :
       /\ Cardinality(matching_columns(key)) >= 2
       /\ first_of(matching_columns(key)) > 1
  /\ \E k1, k2 \in DOMAIN detected_columns :
       k1 # k2 /\ detected_columns[k1] = detected_columns[k2]

\* C2: on an analyzer whose Role Map is populated (after any number of
\* runs of the detection), running the detection again yields the Role Map
\* as it is, and the Role Map is the one a fresh analyzer on the same column
\* names yields.
C2_DetectionIdempotent ==
  analysed =>
    /\ _detect_columns(columns, df_columns, detected_columns) = detected_columns
    /\ detected_columns = _detect_columns(columns, df_columns, empty_dict)

\* an analysed table in which a role has two candidate columns, so that a
\* second run has another column to choose
C2_Witness ==
  /\ analysed
  /\ detected_columns # empty_dict
  /\ \E key \in DOMAIN detected_columns : Cardinality(matching_columns(key)) >= 2
  /\ _detect_columns(columns, df_columns, detected_columns) = detected_columns

\* the rules of the Business-Type Classifier, in their order
business_type_rules ==
  << [triggers |-> {"product", "quantity", "assets"}, label |-> "retail_inventory"],
     [triggers |-> {"customer", "revenue", "date"}, label |-> "service_based"],
     [triggers |-> {"investment", "cashflow"}, label |-> "investment_portfolio"],
     [triggers |-> {"assets", "liabilities", "equity"}, label |-> "balance_sheet"],
     [triggers |-> {"revenue", "cost", "profit"}, label |-> "income_statement"] >>

\* the rules whose trigger set shares a role with the Role Map
rules_hit ==
  { i \in 1..Len(business_type_rules) :
      business_type_rules[i].triggers \cap DOMAIN detected_columns # {} }

\* C3: the business type is the label of the first rule, in the order
\* retail_inventory, service_based, investment_portfolio, balance_sheet,
\* income_statement, whose trigger set shares at least one role with the
\* Role Map, and general_financial when no trigger set does.
C3_FirstIntersectingRule ==
  analysed =>
    business_type = IF rules_hit = {} THEN "general_financial"
                    ELSE business_type_rules[first_of(rules_hit)].label

\* two rules are hit by a Role Map that holds only a part of each trigger
\* set, and the earlier one gives the label
C3_Witness ==
  /\ analysed
  /\ Cardinality(rules_hit) >= 2
  /\ \A i \in rules_hit :
       ~ (business_type_rules[i].triggers \subseteq DOMAIN detected_columns)
  /\ business_type = business_type_rules[first_of(rules_hit)].label

\* C4: for a table whose columns are exactly Revenue and Cost the roles are
\* revenue and cost and the business type is income_statement.
C4_RevenueCostIsIncomeStatement ==
  (analysed /\ df_columns = <<Col_Revenue, Col_Cost>>) =>
    /\ DOMAIN detected_columns = {"revenue", "cost"}
    /\ business_type = "income_statement"

----------------------------------------------------------------------------
(* Properties of the Metric Selector/Dispatcher and the Metric Library *)

\* calculate_all_metrics has returned; its argument and the bundle it built
dispatched == call # None /\ call[1].fn = "calculate_all_metrics"
aggregates == call[1].args[1]
bundle == ret[1]

\* the aggregate keys each metric of the bundle requires
metric_prerequisites ==
  [ profit_loss |-> {"revenue", "cost"},
    gross_margin |-> {"revenue", "cost"},
    net_margin |-> {"revenue", "cost"},
    cashflow_analysis |-> {"revenue", "cost"},
    ebitda |-> {"revenue", "cost"},
    roi |-> {"revenue", "cost", "investment"},
    npv |-> {"cashflows"},
    irr |-> {"cashflows"},
    working_capital |-> {"assets", "liabilities"},
    debt_to_equity |-> {"liabilities", "equity"},
    inventory_turnover |-> {"cost", "assets"},
    wacc |-> {"equity", "liabilities"} ]

is_error(r) == "error" \in DOMAIN r

\* C5: the keys of the bundle are the metrics whose prerequisite aggregate
\* keys are all present, whatever the values of the aggregates: profit_loss,
\* gross_margin, net_margin, cashflow_analysis and ebitda iff revenue and
\* cost; roi iff revenue, cost and investment; npv and irr iff cashflows;
\* working_capital iff assets and liabilities; debt_to_equity iff liabilities
\* and equity; inventory_turnover iff cost and assets; wacc iff equity and
\* liabilities.
C5_BundleKeys ==
  dispatched =>
    DOMAIN bundle = { m \in DOMAIN metric_prerequisites :
                        metric_prerequisites[m] \subseteq DOMAIN aggregates }

\* a bundle with a key whose entry is an error record, and without the keys
\* of the metrics whose prerequisites are missing
C5_Witness ==
  /\ dispatched
  /\ DOMAIN aggregates = {"revenue", "cost", "cashflows", "equity"}
  /\ aggregates["cashflows"] = <<>>
  /\ is_error(bundle["npv"])
  /\ "roi" \notin DOMAIN bundle
  /\ "wacc" \notin DOMAIN bundle

\* the sum of the cells of a column that coerce to a number
column_sum(name) ==
  LET cells == df_data[index(df_columns, name)]
  IN  sum([i \in 1..Len(cells) |-> IF cells[i].coercible THEN cells[i].v ELSE 0])

\* the table has the columns Equity and Liabilities only, and the bundle was
\* built from the aggregates extracted from it after analyze_dataset
equity_liabilities_pipeline ==
  /\ df_columns = <<Col_Equity, Col_Liabilities>>
  /\ analysed
  /\ dispatched
  /\ aggregates = extract_financial_data(df_columns, df_data, detected_columns)

\* C6: for a table with only Equity and Liabilities columns whose sums are
\* both positive, the bundle of the pipeline has a 'wacc' entry without an
\* 'error' key that equals calculate_wacc(equity sum, liabilities sum, 0.12,
\* 0.06, 0.30).
C6_WaccOfPositiveSums ==
  (equity_liabilities_pipeline
     /\ column_sum(Col_Equity) > 0 /\ column_sum(Col_Liabilities) > 0) =>
    /\ "wacc" \in DOMAIN bundle
    /\ ~ is_error(bundle["wacc"])
    /\ bundle["wacc"] = calculate_wacc(column_sum(Col_Equity), column_sum(Col_Liabilities),
                                       Div(12, 100), Div(6, 100), Div(30, 100))

\* the pipeline has run on a table whose equity sum and liabilities sum are
\* positive and differ
C6_Witness ==
  /\ equity_liabilities_pipeline
  /\ column_sum(Col_Equity) > 0
  /\ column_sum(Col_Liabilities) > column_sum(Col_Equity)
  /\ bundle["wacc"].equity = column_sum(Col_Equity)
  /\ bundle["wacc"].debt = column_sum(Col_Liabilities)

\* C7: when the equity and the liabilities aggregates both exist and one of
\* them is zero or negative, the bundle has a 'wacc' entry that is an error
\* record (its only key is 'error'), and it is the dispatcher's own record,
\* not a result of calculate_wacc.
C7_WaccNonPositiveInputs ==
  (dispatched
     /\ {"equity", "liabilities"} \subseteq DOMAIN aggregates
     /\ (aggregates["equity"] <= 0 \/ aggregates["liabilities"] <= 0)) =>
    /\ "wacc" \in DOMAIN bundle
    /\ DOMAIN bundle["wacc"] = {"error"}
    /\ bundle["wacc"] # calculate_wacc(aggregates["equity"], aggregates["liabilities"],
                                       Div(12, 100), Div(6, 100), Div(30, 100))

\* the dispatcher was given a zero equity and a positive liabilities
\* aggregate, for which calculate_wacc itself would return a value
C7_Witness ==
  /\ dispatched
  /\ {"equity", "liabilities"} \subseteq DOMAIN aggregates
  /\ aggregates["equity"] = 0
  /\ aggregates["liabilities"] > 0
  /\ is_error(bundle["wacc"])

\* C8: when the equity aggregate or the liabilities aggregate is missing,
\* the bundle still contains a 'wacc' entry, which has an 'error' key and no
\* 'wacc' key.
C8_WaccErrorWhenMissing ==
  (dispatched /\ ~ ({"equity", "liabilities"} \subseteq DOMAIN aggregates)) =>
    /\ "wacc" \in DOMAIN bundle
    /\ "error" \in DOMAIN bundle["wacc"]
    /\ "wacc" \notin DOMAIN bundle["wacc"]

\* C8, amended: when the equity aggregate or the liabilities aggregate is
\* missing, the bundle contains no 'wacc' entry at all.
C8_NoWaccWhenMissing ==
  (dispatched /\ ~ ({"equity", "liabilities"} \subseteq DOMAIN aggregates)) =>
    "wacc" \notin DOMAIN bundle

\* the dispatcher was given an equity aggregate without a liabilities one,
\* and built a bundle that has other entries
C8_Witness ==
  /\ dispatched
  /\ "equity" \in DOMAIN aggregates
  /\ "liabilities" \notin DOMAIN aggregates
  /\ "wacc" \notin DOMAIN bundle
  /\ "profit_loss" \in DOMAIN bundle

\* what each metric of the bundle is when it is computed on its own from the
\* aggregates the dispatcher was given
standalone(m) ==
  LET revenue == aggregates["revenue"].total
      cost == aggregates["cost"].total
  IN  CASE m = "profit_loss" -> calculate_profit_loss_ratio(revenue, cost)
        [] m = "roi" -> calculate_roi(revenue, cost, aggregates["investment"])
        [] m = "npv" -> calculate_npv_fixed(aggregates["cashflows"], Div(10, 100))
        [] m = "irr" -> calculate_irr_fixed(aggregates["cashflows"], Div(10, 100),
                                            call[1].solver)
        [] m = "gross_margin" -> calculate_gross_margin(revenue, cost)
        [] m = "net_margin" -> calculate_net_margin(revenue, cost)
        [] m = "working_capital" ->
             calculate_working_capital(aggregates["assets"], aggregates["liabilities"])
        [] m = "debt_to_equity" ->
             calculate_debt_to_equity(aggregates["liabilities"], aggregates["equity"])
        [] m = "inventory_turnover" ->
             calculate_inventory_turnover(cost, aggregates["assets"])
        [] m = "cashflow_analysis" -> calculate_cash_flow_analysis(revenue, cost, 0)
        [] m = "wacc" ->
             IF aggregates["equity"] > 0 /\ aggregates["liabilities"] > 0
               THEN calculate_wacc(aggregates["equity"], aggregates["liabilities"],
                                   Div(12, 100), Div(6, 100), Div(30, 100))
               ELSE [error |-> "Need positive Equity and Liabilities/Debt values for WACC calculation"]
        [] m = "ebitda" -> calculate_ebitda(revenue, cost, 0, 0)

\* C9: on every aggregate set the Financial Data Extractor produces, the
\* dispatcher returns a bundle in which every metric whose prerequisites are
\* present has its entry, equal to what the metric yields on its own: an
\* error record of one metric neither removes nor alters the entry of
\* another.
C9_FailureIsolation ==
  (dispatched /\ financial_data # None) =>
    \A m \in DOMAIN metric_prerequisites :
      metric_prerequisites[m] \subseteq DOMAIN aggregates =>
        /\ m \in DOMAIN bundle
        /\ bundle[m] = standalone(m)

\* the extractor synthesized an empty cash-flow series from a revenue and a
\* cost column; npv and irr are error records and the metrics stored after
\* them are full results
C9_Witness ==
  /\ dispatched
  /\ analysed
  /\ aggregates = extract_financial_data(df_columns, df_data, detected_columns)
  /\ "cashflows" \in DOMAIN aggregates
  /\ aggregates["cashflows"] = <<>>
  /\ is_error(bundle["npv"])
  /\ is_error(bundle["irr"])
  /\ ~ is_error(bundle["gross_margin"])
  /\ ~ is_error(bundle["ebitda"])

\* the keys of the full result record of each metric function
result_fields ==
  [ calculate_profit_loss_ratio |->
       { "profit", "revenue", "cost", "profit_loss_ratio",
         "profit_percentage", "is_profitable", "status", "interpretation",
         "formula" },
    calculate_npv_fixed |->
       { "npv", "discount_rate", "periods", "total_cashflow",
         "present_values", "decision", "interpretation", "formula" },
    calculate_irr_fixed |->
       { "irr", "irr_percentage", "periods", "total_cashflow",
         "interpretation", "recommendation", "formula" },
    calculate_roi |->
       { "roi", "roi_percentage", "net_profit", "investment",
         "interpretation", "formula" },
    calculate_break_even |->
       { "break_even_units", "break_even_revenue", "contribution_margin",
         "contribution_margin_ratio", "interpretation", "formula" },
    calculate_gross_margin |->
       { "gross_profit", "gross_margin", "gross_margin_percentage",
         "interpretation", "formula" },
    calculate_net_margin |->
       { "net_profit", "net_margin", "net_margin_percentage",
         "interpretation", "formula" },
    calculate_working_capital |->
       { "working_capital", "current_ratio", "current_assets",
         "current_liabilities", "liquidity_status", "interpretation",
         "formula" },
    calculate_debt_to_equity |->
       { "debt_to_equity", "total_debt", "total_equity", "leverage",
         "interpretation", "formula" },
    calculate_inventory_turnover |->
       { "inventory_turnover", "days_inventory_outstanding", "cogs",
         "average_inventory", "efficiency", "interpretation", "formula" },
    calculate_revenue_per_hour |->
       { "revenue_per_hour", "total_revenue", "total_hours",
         "daily_revenue", "monthly_revenue", "interpretation", "formula" },
    calculate_sales_growth |->
       { "sales_growth", "sales_growth_percentage", "current_sales",
         "previous_sales", "trend", "interpretation", "formula" },
    calculate_payback_period |->
       { "payback_period_years", "payback_period_months",
         "initial_investment", "annual_cashflow", "attractiveness",
         "interpretation", "formula" },
    calculate_profitability_index |->
       { "profitability_index", "npv", "initial_investment", "decision",
         "interpretation", "formula" },
    calculate_cash_flow_analysis |->
       { "net_cashflow", "initial_cash", "ending_cash", "cashflow_margin",
         "cashflow_margin_percentage", "status", "interpretation",
         "formula" },
    calculate_wacc |->
       { "wacc", "wacc_percentage", "equity", "debt", "total_capital",
         "equity_weight", "debt_weight", "cost_of_equity", "cost_of_debt",
         "tax_rate", "after_tax_cost_of_debt", "interpretation", "formula",
         "recommendation" },
    calculate_ebitda |->
       { "ebitda", "revenue", "operating_expenses", "depreciation",
         "amortization", "ebitda_margin", "interpretation", "formula",
         "status" },
    calculate_operating_cash_flow_ratio |->
       { "operating_cashflow_ratio", "operating_cashflow",
         "current_liabilities", "interpretation", "formula", "benchmark" },
    calculate_asset_turnover |->
       { "asset_turnover", "revenue", "total_assets", "interpretation",
         "formula", "benchmark" } ]

\* the metric function behind each key of the bundle
metric_function ==
  [ profit_loss |-> "calculate_profit_loss_ratio",
    roi |-> "calculate_roi",
    npv |-> "calculate_npv_fixed",
    irr |-> "calculate_irr_fixed",
    gross_margin |-> "calculate_gross_margin",
    net_margin |-> "calculate_net_margin",
    working_capital |-> "calculate_working_capital",
    debt_to_equity |-> "calculate_debt_to_equity",
    inventory_turnover |-> "calculate_inventory_turnover",
    cashflow_analysis |-> "calculate_cash_flow_analysis",
    wacc |-> "calculate_wacc",
    ebitda |-> "calculate_ebitda" ]

\* r is an error record, or the full result record of the function
result_shape(fn, r) == DOMAIN r = {"error"} \/ DOMAIN r = result_fields[fn]

\* C10: the record a metric function returns is either a record whose only
\* key is 'error' or its full result record, which has no 'error' key; and
\* every entry of a bundle has one of these two shapes.
C10_ResultShape ==
  call # None =>
    IF dispatched
      THEN \A m \in DOMAIN bundle : result_shape(metric_function[m], bundle[m])
      ELSE call[1].fn \in DOMAIN result_fields => result_shape(call[1].fn, ret[1])

\* a bundle that holds an error record next to a full result record
C10_Witness ==
  /\ dispatched
  /\ \E m1, m2 \in DOMAIN bundle :
       /\ DOMAIN bundle[m1] = {"error"}
       /\ DOMAIN bundle[m2] = result_fields[metric_function[m2]]
       /\ ~ is_error(bundle[m2])

----------------------------------------------------------------------------
(* Properties of the Metric Library called directly *)

\* a direct call of the library function fn has returned
returned(fn) == call # None /\ call[1].fn = fn
arg(i) == call[1].args[i]
result == ret[1]

\* the key under which each guarded function reports its value
value_key ==
  [calculate_npv_fixed |-> "npv",
   calculate_irr_fixed |-> "irr",
   calculate_wacc |-> "wacc",
   calculate_operating_cash_flow_ratio |-> "operating_cashflow_ratio",
   calculate_asset_turnover |-> "asset_turnover"]

\* the hard-error precondition of the call that has returned holds
hard_error_precondition ==
  \/ returned("calculate_npv_fixed") /\ Len(arg(1)) = 0
  \/ returned("calculate_irr_fixed") /\ Len(arg(1)) < 2
  \/ returned("calculate_wacc") /\ arg(1) + arg(2) = 0
  \/ returned("calculate_operating_cash_flow_ratio") /\ arg(2) = 0
  \/ returned("calculate_asset_turnover") /\ arg(2) = 0

\* C11: calculate_npv_fixed on an empty cash-flow list (any discount rate),
\* calculate_irr_fixed on fewer than 2 cash flows, calculate_wacc with
\* equity + debt = 0, calculate_operating_cash_flow_ratio with current
\* liabilities 0 and calculate_asset_turnover with total assets 0 each
\* return an error record without the function's value key.
C11_HardErrorPreconditions ==
  hard_error_precondition =>
    /\ is_error(result)
    /\ value_key[call[1].fn] \notin DOMAIN result

\* every one of the five preconditions is exercised; this state is the
\* asset-turnover one with a non-zero revenue
C11_Witness ==
  /\ returned("calculate_asset_turnover")
  /\ arg(1) # 0 /\ arg(2) = 0
  /\ DOMAIN result = {"error"}

\* the rate the root-finder handed back to calculate_irr_fixed
solver_rate == call[1].solver.root

\* |x| <= 1e-6, the tolerance of the solver
within_solver_tolerance(x) == abs(x.num) * 1000000 <= x.den

\* the root-finder came back with a rate at which the NPV of the cash
\* flows is zero
converged ==
  /\ call[1].solver.kind # "fail"
  /\ solver_rate.den + solver_rate.num # 0
  /\ within_solver_tolerance(npv_sum(arg(1), solver_rate))

\* C12: whenever the root-finder does not converge to a rate at which the
\* NPV of the cash flows is zero, calculate_irr_fixed returns an error
\* record with no 'irr' key; every 'irr' it returns is a rate at which the
\* NPV is zero within solver tolerance.
C12_IrrOnlyAtRoots ==
  returned("calculate_irr_fixed") /\ Len(arg(1)) >= 2 /\ arg(1) \in CashflowLists =>
    /\ ~converged => is_error(result) /\ "irr" \notin DOMAIN result
    /\ "irr" \in DOMAIN result => converged

\* calculate_irr_fixed has returned on the cash flows of the IRR test
irr_scenario == returned("calculate_irr_fixed") /\ arg(1) = test_cashflows

\* 1e-3 in units of 10,000
within_scenario_tolerance(x) == abs(x.num) * 10000000 <= x.den

\* C13 as stated: on [-100000, 30000, 40000, 50000, 40000] the result has
\* an 'irr' key and no 'error' key, the returned IRR is strictly between
\* 0.10 and 0.20, and the NPV at that rate is within 1e-3 of zero.
C13_IrrBetween10And20 ==
  irr_scenario =>
    /\ "irr" \in DOMAIN result
    /\ ~is_error(result)
    /\ 1000 < result.irr /\ result.irr < 2000
    /\ within_scenario_tolerance(npv_sum(test_cashflows, Div(result.irr, 10000)))

\* C13, amended: on these cash flows the result has an 'irr' key and no
\* 'error' key, the returned IRR is strictly between 0.20 and 0.21, and the
\* NPV changes sign around it: positive at 17/83 (0.2048), negative at 8/39
\* (0.2051), the returned rate between the two.
C13_IrrBetween20And21 ==
  irr_scenario =>
    /\ "irr" \in DOMAIN result
    /\ ~is_error(result)
    /\ 2000 < result.irr /\ result.irr < 2100
    /\ gt(npv_sum(test_cashflows, Rat(17, 83)), 0, 1)
    /\ lt(npv_sum(test_cashflows, Rat(8, 39)), 0, 1)
    /\ 17 * 10000 < result.irr * 83 /\ result.irr * 39 < 8 * 10000

C13_Witness ==
  /\ irr_scenario
  /\ "irr" \in DOMAIN result
  /\ result.periods = 5

\* calculate_wacc has returned on equity 500000, debt 300000, cost of
\* equity 0.12, cost of debt 0.06 and tax rate 0.30
wacc_scenario ==
  /\ returned("calculate_wacc")
  /\ arg(1) = test_equity /\ arg(2) = test_debt
  /\ arg(3) = Rat(3, 25) /\ arg(4) = Rat(3, 50) /\ arg(5) = Rat(3, 10)

npv_defined ==
  /\ returned("calculate_npv_fixed")
  /\ Len(arg(1)) >= 1
  /\ arg(2).num + arg(2).den > 0

\* cf[t] / (1 + r)^t + cf[t+1] / (1 + r)^(t+1) + ..., term by term
RECURSIVE discounted_from(_, _, _)
discounted_from(cf, r, t) ==
  IF cf = <<>> THEN Rat(0, 1)
  ELSE Add(Div(Head(cf) * pow(r.den, t), pow(r.num + r.den, t)),
           discounted_from(Tail(cf), r, t + 1))

\* C15: for every non-empty cash-flow sequence of length n and every rate
\* r > -1, npv is the sum over t = 0..n-1 of cf[t]/(1+r)^t rounded to 4
\* decimals, periods is n, total_cashflow is sum(cf) and the decision is
\* 'Accept Project' exactly when that sum is > 0.
C15_NpvFormula ==
  npv_defined =>
    LET literal == discounted_from(arg(1), arg(2), 0) IN
    /\ ~is_error(result)
    /\ result.npv = round4(literal)
    /\ result.periods = Len(arg(1))
    /\ result.total_cashflow = sum(arg(1))
    /\ result.decision = "Accept Project" <=> literal.num > 0
    /\ result.decision \in {"Accept Project", "Reject Project"}

\* a later cash flow is discounted: -1 + 2/1.1 = 0.8182
C15_Witness ==
  /\ npv_defined
  /\ arg(1) = <<-1, 2>> /\ arg(2) = Rat(1, 10)
  /\ result.npv = 8182
  /\ result.decision = "Accept Project"

\* the returned present values added up, less the returned npv, in units
\* of 0.0001
present_values_gap == sum(result.present_values) - result.npv

\* C16 as stated: for every non-empty cash-flow sequence and every rate
\* r > -1 the returned present values sum to the returned npv within 1e-6.
C16_PresentValuesSumToNpv ==
  npv_defined => abs(present_values_gap) * 100 <= 1

\* C16, amended: the returned present values sum to the returned npv within
\* 0.00005 * (n + 1), n the number of cash flows: each entry and the npv
\* are rounded to 4 decimals on their own.
C16_PresentValuesSumWithinRounding ==
  npv_defined => abs(present_values_gap) * 2 <= Len(arg(1)) + 1

\* four cash flows of 1 at 10%: 1.0 + 0.9091 + 0.8264 + 0.7513 = 3.4868
\* against npv 3.4869
C16_Witness ==
  /\ npv_defined
  /\ arg(1) = level_cashflows /\ arg(2) = Rat(1, 10)
  /\ result.npv = 34869
  /\ sum(result.present_values) = 34868

\* either inventory-turnover function has returned
inventory_turnover_returned ==
  \/ returned("calculate_inventory_turnover")
  \/ returned("IndustryKPIs.calculate_inventory_turnover")

\* C17: calculate_inventory_turnover(cogs, avgInventory) returns an error
\* record whenever avgInventory <= 0, and otherwise inventory_turnover =
\* cogs/avgInventory with days_inventory_outstanding = 365/turnover.
C17_InventoryTurnoverGuard ==
  inventory_turnover_returned =>
    IF arg(2) <= 0 THEN is_error(result)
    ELSE /\ ~is_error(result)
         /\ result.inventory_turnover * arg(2) = arg(1) * 10000
              \/ result.inventory_turnover * arg(2) = arg(1) * 100
         /\ arg(1) > 0 =>
              result.days_inventory_outstanding * arg(1) \in
                { 365 * arg(2), 365 * arg(2) * 100 }

\* the functions with a soft guard: the position of the divisor among the
\* arguments (break-even divides by price - variable cost) and the key of
\* the ratio
soft_guarded ==
  [calculate_roi |-> [divisor |-> 3, ratio |-> "roi"],
   calculate_profit_loss_ratio |-> [divisor |-> 1, ratio |-> "profit_loss_ratio"],
   calculate_gross_margin |-> [divisor |-> 1, ratio |-> "gross_margin"],
   calculate_net_margin |-> [divisor |-> 1, ratio |-> "net_margin"],
   calculate_cash_flow_analysis |-> [divisor |-> 1, ratio |-> "cashflow_margin"],
   calculate_break_even |-> [divisor |-> 2, ratio |-> "break_even_units"],
   calculate_working_capital |-> [divisor |-> 2, ratio |-> "current_ratio"],
   calculate_debt_to_equity |-> [divisor |-> 2, ratio |-> "debt_to_equity"],
   calculate_revenue_per_hour |-> [divisor |-> 2, ratio |-> "revenue_per_hour"],
   calculate_sales_growth |-> [divisor |-> 2, ratio |-> "sales_growth"],
   calculate_payback_period |-> [divisor |-> 2, ratio |-> "payback_period_years"],
   calculate_profitability_index |-> [divisor |-> 2, ratio |-> "profitability_index"]]

\* the divisor of the call that has returned
divisor ==
  IF call[1].fn = "calculate_break_even" THEN arg(2) - arg(3)
  ELSE arg(soft_guarded[call[1].fn].divisor)

soft_guard_case ==
  /\ call # None
  /\ call[1].fn \in DOMAIN soft_guarded
  /\ divisor <= 0

\* C18: when the divisor is zero or negative, each of the twelve functions
\* returns a full result, without 'error', whose ratio is exactly 0.
C18_SoftZeroDivisor ==
  soft_guard_case =>
    /\ ~is_error(result)
    /\ DOMAIN result = result_fields[call[1].fn]
    /\ result[soft_guarded[call[1].fn].ratio] = 0

\* a negative divisor with a non-zero dividend
C18_Witness ==
  /\ soft_guard_case
  /\ call[1].fn = "calculate_payback_period"
  /\ arg(1) = 2 /\ arg(2) = -1
  /\ result.payback_period_years = 0

----------------------------------------------------------------------------
(* Profit/loss *)

\* the dispatcher has returned on an aggregate set with a revenue and a
\* cost aggregate; revenue_total and cost_total are their totals
profit_loss_case ==
  /\ dispatched
  /\ "revenue" \in DOMAIN aggregates
  /\ "cost" \in DOMAIN aggregates
revenue_total == aggregates["revenue"].total
cost_total == aggregates["cost"].total

\* C19: with R the revenue total and C the cost total, the bundle entry
\* 'profit_loss' has profit = R - C, profit_loss_ratio = (R - C)/R (to 4
\* decimals) when R > 0, is_profitable true and status 'Profitable' exactly
\* when R - C > 0 and status 'Loss' otherwise; R = 500000 and C = 350000
\* give profit 150000, ratio 0.3 and status 'Profitable'.
C19_ProfitLossFromTotals ==
  profit_loss_case =>
    /\ "profit_loss" \in DOMAIN bundle
    /\ LET entry == bundle["profit_loss"]
           profit == revenue_total - cost_total
       IN
       /\ ~is_error(entry)
       /\ entry.profit = profit
       /\ revenue_total > 0 =>
            2 * abs(entry.profit_loss_ratio * revenue_total - profit * 10000)
              <= revenue_total
       /\ entry.is_profitable <=> profit > 0
       /\ entry.status = IF profit > 0 THEN "Profitable" ELSE "Loss"
       /\ revenue_total = test_revenue /\ cost_total = test_cost =>
            /\ entry.profit = 150000
            /\ entry.profit_loss_ratio = 3000
            /\ entry.status = "Profitable"

C19_Witness ==
  /\ profit_loss_case
  /\ revenue_total = test_revenue /\ cost_total = test_cost
  /\ bundle["profit_loss"].profit = 150000
  /\ bundle["profit_loss"].status = "Profitable"

\* largest scaling constant
MaxScale == 4
Scales == 2..MaxScale

\* C20: for every revenue, every cost and every positive constant k,
\* calculate_profit_loss_ratio(k*revenue, k*cost) returns the same
\* profit_loss_ratio as calculate_profit_loss_ratio(revenue, cost), 0 in both
\* when revenue <= 0.
C20_ScaleInvariance ==
  returned("calculate_profit_loss_ratio") =>
    \A k \in Scales :
      LET scaled == calculate_profit_loss_ratio(k * arg(1), k * arg(2)) IN
      /\ ~is_error(result) /\ ~is_error(scaled)
      /\ scaled.profit_loss_ratio = result.profit_loss_ratio
      /\ scaled.profit = k * result.profit
      /\ arg(1) <= 0 => scaled.profit_loss_ratio = 0

\* revenue 2 and cost -1: ratio 1.5 at every scale
C20_Witness ==
  /\ returned("calculate_profit_loss_ratio")
  /\ arg(1) = 2 /\ arg(2) = -1
  /\ result.profit_loss_ratio = 15000
  /\ calculate_profit_loss_ratio(3 * arg(1), 3 * arg(2)).profit = 9

----------------------------------------------------------------------------
(* Properties of the Financial Data Extractor *)

\* extract_financial_data has returned, and `extracted_data` is its dict
extracted == financial_data # None
extracted_data == financial_data[1]

\* the cells of the column a role is mapped to (the first of that name), and
\* whether the name is the name of one column only
cells_of(role) == df_data[index(df_columns, detected_columns[role])]
unique_column(role) ==
  Cardinality({ i \in 1..Len(df_columns) : df_columns[i] = detected_columns[role] }) = 1

\* the values of the cells that coerce to a number, in row order
RECURSIVE coercible_values(_)
coercible_values(cells) ==
  IF cells = <<>> THEN <<>>
  ELSE (IF Head(cells).coercible THEN <<Head(cells).v>> ELSE <<>>)
         \o coercible_values(Tail(cells))

coercible_count(cells) == Cardinality({ i \in 1..Len(cells) : cells[i].coercible })

series_is_coercible_cells(role) ==
  /\ extracted_data[role].series = coercible_values(cells_of(role))
  /\ Len(extracted_data[role].series) = coercible_count(cells_of(role))
  /\ extracted_data[role].total = sum(extracted_data[role].series)

\* C21 as stated: for every revenue or cost column the aggregate's series
\* holds exactly the cells that coerce to a number, in row order; its length
\* is the count of coercible cells and its total is the sum of the series.
C21_SeriesOfEveryColumn ==
  extracted =>
    \A role \in {"revenue", "cost"} \cap DOMAIN extracted_data :
      series_is_coercible_cells(role)

\* C21, amended: the same for every revenue or cost column whose name is the
\* name of one column of the table; when the name is repeated, the aggregate
\* is the zero aggregate with an empty series and an error note.
C21_SeriesOfUniqueColumn ==
  extracted =>
    \A role \in {"revenue", "cost"} \cap DOMAIN extracted_data :
      IF unique_column(role)
        THEN series_is_coercible_cells(role) /\ "error" \notin DOMAIN extracted_data[role]
        ELSE /\ extracted_data[role].series = <<>>
             /\ extracted_data[role].total = 0
             /\ "error" \in DOMAIN extracted_data[role]

\* a column with a cell that parses after one that does not
C21_Witness ==
  /\ extracted
  /\ "revenue" \in DOMAIN extracted_data
  /\ unique_column("revenue")
  /\ \E i, j \in 1..Len(cells_of("revenue")) :
       i < j /\ ~cells_of("revenue")[i].coercible /\ cells_of("revenue")[j].coercible
  /\ Len(extracted_data["revenue"].series) < Len(cells_of("revenue"))

\* the column of the role has rows and none of its cells coerces to a number
wholly_unusable(role) ==
  /\ Len(cells_of(role)) >= 1
  /\ \A i \in 1..Len(cells_of(role)) : ~cells_of(role)[i].coercible

\* the roles whose aggregate the extractor stores under the role's own name
aggregate_roles ==
  {"revenue", "cost", "investment", "assets", "liabilities", "equity", "quantity"}

\* C22: when no cell of a revenue or cost column coerces to a number, the
\* aggregate of that role has total 0, mean 0 and an empty series and carries
\* an 'error' note, and the aggregates of the other roles are still
\* produced.
C22_UnusableColumnIsNoted ==
  extracted =>
    \A role \in {"revenue", "cost"} \cap DOMAIN extracted_data :
      wholly_unusable(role) =>
        /\ extracted_data[role].total = 0
        /\ extracted_data[role].mean = Rat(0, 1)
        /\ extracted_data[role].series = <<>>
        /\ "error" \in DOMAIN extracted_data[role]
        /\ \A other \in aggregate_roles \cap DOMAIN detected_columns :
             other \in DOMAIN extracted_data

\* extract_financial_data has returned on the Role Map that analyze_dataset
\* built: the dict is the one extracted from the present table and Role Map
extracted_after_analysis ==
  /\ analysed
  /\ extracted
  /\ extracted_data = extract_financial_data(df_columns, df_data, detected_columns)

has_noted(role) == "error" \in DOMAIN extracted_data[role]

\* the 'cashflows' entry when there is no cashflow role
cashflows_derived_or_absent ==
  IF /\ {"revenue", "cost"} \subseteq DOMAIN extracted_data
     /\ ~has_noted("revenue") /\ ~has_noted("cost")
    THEN /\ "cashflows" \in DOMAIN extracted_data
         /\ LET cf == extracted_data["cashflows"]
                rs == extracted_data["revenue"].series
                cs == extracted_data["cost"].series
            IN  /\ Len(cf) = min(Len(rs), Len(cs))
                /\ \A i \in 1..Len(cf) : cf[i] = rs[i] - cs[i]
    ELSE "cashflows" \notin DOMAIN extracted_data

\* C23 as stated: with a cashflow role 'cashflows' is the numeric series of
\* that column; otherwise, with revenue and cost aggregates that carry no
\* error note, it has length min(len(revenue series), len(cost series)) and
\* element i is revenue.series[i] - cost.series[i]; otherwise there is no
\* 'cashflows' key.
C23_CashflowsOfEveryTable ==
  extracted_after_analysis =>
    IF "cashflow" \in DOMAIN detected_columns
      THEN /\ "cashflows" \in DOMAIN extracted_data
           /\ extracted_data["cashflows"] = coercible_values(cells_of("cashflow"))
      ELSE cashflows_derived_or_absent

\* C23, amended: with a cashflow role 'cashflows' is the numeric series of
\* that column when its name is the name of one column only, and the empty
\* list when the name is repeated; the rest as stated.
C23_CashflowsOfUniqueColumn ==
  extracted_after_analysis =>
    IF "cashflow" \in DOMAIN detected_columns
      THEN /\ "cashflows" \in DOMAIN extracted_data
           /\ extracted_data["cashflows"] =
                IF unique_column("cashflow")
                  THEN coercible_values(cells_of("cashflow")) ELSE <<>>
      ELSE cashflows_derived_or_absent

\* cash flows synthesized from series of different lengths
C23_Witness ==
  /\ extracted_after_analysis
  /\ "cashflow" \notin DOMAIN detected_columns
  /\ "cashflows" \in DOMAIN extracted_data
  /\ Len(extracted_data["revenue"].series) > Len(extracted_data["cost"].series)
  /\ Len(extracted_data["cashflows"]) = Len(extracted_data["cost"].series)
  /\ Len(extracted_data["cashflows"]) >= 1

record_roles == {"revenue", "cost", "quantity"}
scalar_roles == {"assets", "liabilities", "equity", "investment"}

\* the sum of the numeric cells of the role's column
numeric_cells_sum(role) == sum(coercible_values(cells_of(role)))

\* C24 as stated: each of revenue, cost and quantity of the Role Map has an
\* aggregate with total, mean and series; each of assets, liabilities,
\* equity and investment has a scalar equal to the sum of the column's
\* numeric cells.
C24_AggregateShapes ==
  extracted_after_analysis =>
    /\ \A role \in record_roles \cap DOMAIN detected_columns :
         /\ role \in DOMAIN extracted_data
         /\ {"total", "mean", "series"} \subseteq DOMAIN extracted_data[role]
    /\ \A role \in scalar_roles \cap DOMAIN detected_columns :
         /\ role \in DOMAIN extracted_data
         /\ extracted_data[role] = numeric_cells_sum(role)

\* C24, amended: revenue and cost have an aggregate with total, mean and
\* series; quantity has an aggregate with total and mean only; a scalar role
\* has the sum of the column's numeric cells when the column's name occurs
\* once in the table, and 0 when the name is repeated.
C24_AggregateShapesAsBuilt ==
  extracted_after_analysis =>
    /\ \A role \in {"revenue", "cost"} \cap DOMAIN detected_columns :
         /\ role \in DOMAIN extracted_data
         /\ {"total", "mean", "series"} \subseteq DOMAIN extracted_data[role]
    /\ "quantity" \in DOMAIN detected_columns =>
         /\ "quantity" \in DOMAIN extracted_data
         /\ DOMAIN extracted_data["quantity"] = {"total", "mean"}
    /\ \A role \in scalar_roles \cap DOMAIN detected_columns :
         /\ role \in DOMAIN extracted_data
         /\ extracted_data[role] =
              IF unique_column(role) THEN numeric_cells_sum(role) ELSE 0

\* a scalar role over a column with a text cell and two numeric cells that
\* differ
C24_Witness ==
  /\ extracted_after_analysis
  /\ "equity" \in DOMAIN detected_columns
  /\ unique_column("equity")
  /\ \E i \in 1..Len(cells_of("equity")) : ~cells_of("equity")[i].coercible
  /\ coercible_count(cells_of("equity")) = 2
  /\ extracted_data["equity"] = 1

----------------------------------------------------------------------------
(* Properties of the rule-based insights *)

insights_returned == returned("LLMFinancialAnalyzer.analyze_dataset")
metrics_results_given == arg(2)
llm_outcome == arg(3)

\* no API key is configured, or the call of the language model failed
fell_back == ~llm_outcome.use_llm \/ llm_outcome.reply = None

raised_error == "raised" \in DOMAIN result

\* the list under `section` has a sentence with this text
has_sentence(section, text) ==
  \E i \in 1..Len(result[section]) : result[section][i].text = text

gross_margin_over_30 ==
  /\ "gross_margin" \in DOMAIN metrics_results_given
  /\ metrics_results_given["gross_margin"].gross_margin_percentage > 3000

current_ratio_under_1 ==
  /\ "working_capital" \in DOMAIN metrics_results_given
  /\ metrics_results_given["working_capital"].current_ratio < 10000

\* C25: for every Metrics Bundle the rule-based generator returns, without
\* raising, a record whose key_insights, strengths, concerns,
\* recommendations, risks, opportunities and anomalies are sequences of
\* sentences; the gross-margin strength is there exactly when
\* gross_margin_percentage > 30 and the liquidity risk exactly when
\* current_ratio < 1; the record is the same whether no API key is
\* configured or the LLM call fails.
C25_RuleBasedFallback ==
  (insights_returned /\ fell_back) =>
    /\ ~raised_error
    /\ insight_sections \subseteq DOMAIN result
    /\ \A k \in insight_sections :
         /\ DOMAIN result[k] = 1..Len(result[k])
         /\ \A i \in 1..Len(result[k]) : result[k][i].text \in STRING
    /\ has_sentence("strengths", "Strong gross margin of {:.2f}%") <=> gross_margin_over_30
    /\ has_sentence("risks", "May struggle to meet short-term obligations")
         <=> current_ratio_under_1
    /\ result = _generate_rule_based_insights(metrics_results_given)

\* the LLM call failed on a bundle with a gross margin of 30% exactly and a
\* current ratio under 1: no gross-margin strength, the liquidity risk
C25_Witness ==
  /\ insights_returned
  /\ llm_outcome.use_llm /\ llm_outcome.reply = None
  /\ "gross_margin" \in DOMAIN metrics_results_given
  /\ metrics_results_given["gross_margin"].gross_margin_percentage = 3000
  /\ current_ratio_under_1
  /\ metrics_results_given["working_capital"].current_ratio > 0
  /\ ~has_sentence("strengths", "Strong gross margin of {:.2f}%")
  /\ has_sentence("risks", "May struggle to meet short-term obligations")

----------------------------------------------------------------------------
(* Properties of the order of the operations *)

\* extract_financial_data has returned a dict that was not there before
extraction_step == financial_data' # financial_data

\* C26: extract_financial_data before analyze_dataset returns the empty
\* aggregate set, for any table; after analyze_dataset it returns an
\* aggregate for every detected revenue, cost, investment, assets,
\* liabilities, equity and quantity role; in either order it leaves the Role
\* Map, the business type and the table as they were.
C26_OperationOrdering ==
  /\ []((extracted /\ ~analysed) => extracted_data = empty_dict)
  /\ [][(extraction_step /\ analysed) =>
          \A role \in aggregate_roles \cap DOMAIN detected_columns :
            role \in DOMAIN financial_data'[1]]_vars
  /\ [][extraction_step =>
          UNCHANGED << df_columns, df_data, columns, detected_columns,
                       business_type >>]_vars

\* a table with a revenue column was extracted before it was analysed: the
\* aggregate set is empty although the Role Map, built since, has the role
C26_Witness ==
  /\ extracted
  /\ analysed
  /\ extracted_data = empty_dict
  /\ "revenue" \in DOMAIN detected_columns
  /\ Len(df_data[1]) >= 1

----------------------------------------------------------------------------
(* Properties of the business type *)

role_map_has(roles) == roles \cap DOMAIN detected_columns # {}

earlier_types_roles ==
  {"product", "quantity", "assets", "customer", "revenue", "date",
   "investment", "cashflow"}

\* C27: the classifier returns income_statement only when the Role Map has
\* cost or profit and none of product, quantity, assets, customer, revenue,
\* date, investment, cashflow, liabilities, equity; it returns balance_sheet
\* only when the Role Map has liabilities or equity and none of product,
\* quantity, assets, customer, revenue, date, investment, cashflow.
C27_StatementTypesAreLastResorts ==
  analysed =>
    /\ business_type = "income_statement" =>
         /\ role_map_has({"cost", "profit"})
         /\ ~role_map_has(earlier_types_roles \cup {"liabilities", "equity"})
    /\ business_type = "balance_sheet" =>
         /\ role_map_has({"liabilities", "equity"})
         /\ ~role_map_has(earlier_types_roles)

\* a table of rows with a cost column and a liabilities column is a balance
\* sheet
C27_Witness ==
  /\ analysed
  /\ business_type = "balance_sheet"
  /\ {"cost", "liabilities"} \subseteq DOMAIN detected_columns
  /\ Len(df_data[1]) >= 1

----------------------------------------------------------------------------
(* Properties of the rows of the synthesized cash flows *)

\* row r has a number in the revenue column and in the cost column, and v is
\* their difference
row_difference(r, v) ==
  /\ cells_of("revenue")[r].coercible
  /\ cells_of("cost")[r].coercible
  /\ v = cells_of("revenue")[r].v - cells_of("cost")[r].v

\* C28: in a table without a cashflow column every element of the
\* synthesized 'cashflows' is the revenue cell minus the cost cell of one
\* and the same row, also when cells were dropped from the series.
C28_CashflowsAreRowDifferences ==
  ( /\ extracted_after_analysis
    /\ "cashflow" \notin DOMAIN detected_columns
    /\ "cashflows" \in DOMAIN extracted_data ) =>
    \A i \in 1..Len(extracted_data["cashflows"]) :
      \E r \in 1..Len(cells_of("revenue")) :
        row_difference(r, extracted_data["cashflows"][i])

----------------------------------------------------------------------------
(* Properties of the advertised metrics *)

\* the metric names that analyze_dataset lists and the dispatcher stores
\* under the same name
same_name_metrics ==
  {"roi", "npv", "irr", "gross_margin", "net_margin", "working_capital",
   "debt_to_equity", "inventory_turnover"}

advertised == { metrics_available[i] : i \in 1..Len(metrics_available) }

\* the bundle was built from the aggregates extracted from the analysed
\* table
bundle_of_the_table ==
  /\ extracted_after_analysis
  /\ dispatched
  /\ aggregates = extracted_data

\* C29: every metric name of available_metrics that the dispatcher computes
\* under the same name is a key of the bundle built from the aggregates
\* extracted from the same table.
C29_AdvertisedMetricsAreComputed ==
  bundle_of_the_table =>
    \A name \in same_name_metrics \cap advertised : name \in DOMAIN bundle

----------------------------------------------------------------------------
(* Properties of an aggregate set without liabilities *)

aggregates_given == arg(1)

assets_without_liabilities ==
  /\ {"assets", "liabilities"} \subseteq DOMAIN aggregates_given
  /\ aggregates_given["assets"] > 0
  /\ aggregates_given["liabilities"] = 0

\* C30: for every aggregate set with assets > 0 and liabilities = 0 the
\* working_capital entry of the bundle has current_ratio 0 and
\* liquidity_status 'Concerning', and the rule-based insights on that bundle
\* have the low-current-ratio concern and the risk 'May struggle to meet
\* short-term obligations'.
C30_ZeroLiabilitiesAreConcerning ==
  (insights_returned /\ fell_back /\ assets_without_liabilities) =>
    /\ "working_capital" \in DOMAIN metrics_results_given
    /\ metrics_results_given["working_capital"].current_ratio = 0
    /\ metrics_results_given["working_capital"].liquidity_status = "Concerning"
    /\ ~raised_error
    /\ has_sentence("concerns", "Low current ratio of {:.2f} indicates liquidity issues")
    /\ has_sentence("risks", "May struggle to meet short-term obligations")

\* insights generated without an API key for assets of 5 and no liabilities,
\* with a working capital of 5
C30_Witness ==
  /\ insights_returned
  /\ ~llm_outcome.use_llm
  /\ assets_without_liabilities
  /\ aggregates_given["assets"] = 5
  /\ metrics_results_given["working_capital"].working_capital = 5
  /\ Len(result["risks"]) >= 1

====
